---- MODULE Spec2Model ----
(***************************************************************************)
(* Model of the local safety gateway: the detector execution engine        *)
(* (ModelManager), the decision engine (DetectionService) and the session  *)
(* orchestrator (ChatService with its GuardrailsManager).                  *)
(*                                                                         *)
(* Scores, confidences and thresholds are integers in hundredths           *)
(* (0.7 is 70).  A Python value that may be None is a sequence of length   *)
(* zero or one.  A Python dict whose iteration order matters is a sequence *)
(* of [name, outcome] entries with distinct names.                         *)
(***************************************************************************)
EXTENDS Integers, Sequences, FiniteSets, TLC

VARIABLES
    detectors,          \* ModelManager.detectors: names of the loaded detectors
    active_detectors,   \* ModelManager.active_detectors
    detector_configs,   \* ModelManager.detector_configs: name -> config mapping
    chat_history,       \* ChatService.chat_history: session id -> sequence of records
    session_configs,    \* ChatService.session_configs: session id -> mapping
    is_initialized,     \* GuardrailsManager.is_initialized
    gm_active_detectors,\* GuardrailsManager.active_detectors (a list)
    policy,             \* GuardrailsManager.rails and its ConfigLoader; <<>> where a
                        \* specification follows the manager through the two fields above only
    calls,              \* the process_message calls: position, locals, returned envelope
    processed,          \* session id -> process_message calls returned since the last clear
    arg,                \* the arguments of the last operation applied
    ret                 \* what the last operation returned

vars == <<detectors, active_detectors, detector_configs, chat_history,
          session_configs, is_initialized, gm_active_detectors, policy, calls, processed, arg, ret>>

mm_vars == <<detectors, active_detectors, detector_configs>>
chat_vars == <<chat_history, session_configs, is_initialized, gm_active_detectors, policy, calls, processed>>

(***************************************************************************)
(* Generic helpers                                                         *)
(***************************************************************************)
Range(s) == {s[i] : i \in DOMAIN s}

Min(a, b) == IF a < b THEN a ELSE b

\* dict.update: the keys of b override those of a
Update(a, b) == [k \in (DOMAIN a) \cup (DOMAIN b) |-> IF k \in DOMAIN b THEN b[k] ELSE a[k]]

EmptyMap == [k \in {} |-> 0]

RECURSIVE SeqSum(_)
SeqSum(s) == IF s = <<>> THEN 0 ELSE Head(s) + SeqSum(Tail(s))

RECURSIVE FilterSeq(_, _)
FilterSeq(s, keep) ==
    IF s = <<>> THEN <<>>
    ELSE IF Head(s) \in keep THEN <<Head(s)>> \o FilterSeq(Tail(s), keep)
         ELSE FilterSeq(Tail(s), keep)

(***************************************************************************)
(* The six detector kinds (ModelManager.available_detectors) in the order  *)
(* of their declaration, which is also the order initialize() loads them.  *)
(***************************************************************************)
available_detectors == <<"toxicity", "pii", "prompt_injection", "topic", "fact_check", "spam">>

Detectors == Range(available_detectors)

\* an iteration order of a set of detector names
SetOrder(S) == FilterSeq(available_detectors, S)

(***************************************************************************)
(* Detection outcomes.  The result of a detector is [flag, confidence,     *)
(* detail]: flag is the kind's own verdict (is_toxic, has_pii,             *)
(* is_injection, has_restricted_topic, needs_fact_check, is_spam),         *)
(* confidence is its confidence/max_similarity, detail the PII labels.     *)
(* An outcome as detect_all stores it is [error, result]: error is ""      *)
(* when the key is absent, result is <<>> for None.                        *)
(***************************************************************************)
Result(flag, confidence, detail) == [flag |-> flag, confidence |-> confidence, detail |-> detail]

OkOutcome(r) == [error |-> "", result |-> <<r>>]

ErrorOutcome(e) == [error |-> e, result |-> <<>>]

Entry(name, outcome) == [name |-> name, outcome |-> outcome]

Names(results) == {results[i].name : i \in DOMAIN results}

Lookup(results, name) == (CHOOSE i \in DOMAIN results : results[i].name = name)

OutcomeOf(results, name) == results[Lookup(results, name)].outcome

\* a line of text of a decision: a blocking reason or a warning
Line(tag, detector, detail, value) == [tag |-> tag, detector |-> detector, detail |-> detail, value |-> value]

(***************************************************************************)
(* DetectionService.generate_summary                                       *)
(***************************************************************************)
ScoreTotal(scores) == SeqSum([i \in 1..Len(SetOrder(DOMAIN scores)) |-> scores[SetOrder(DOMAIN scores)[i]]])

SafeBelow == 20
MinorBelow == 50

generate_summary(blocked, blocking_reasons, warnings, scores) ==
    IF blocked THEN [kind |-> "Content blocked", lines |-> blocking_reasons]
    ELSE IF warnings # <<>> THEN [kind |-> "Warnings", lines |-> warnings]
    ELSE IF DOMAIN scores # {} THEN
        IF ScoreTotal(scores) < SafeBelow * Cardinality(DOMAIN scores)
            THEN [kind |-> "Content appears safe", lines |-> <<>>]
        ELSE IF ScoreTotal(scores) < MinorBelow * Cardinality(DOMAIN scores)
            THEN [kind |-> "Content has minor safety concerns", lines |-> <<>>]
        ELSE [kind |-> "Content has moderate safety concerns", lines |-> <<>>]
    ELSE [kind |-> "No safety issues detected", lines |-> <<>>]

(***************************************************************************)
(* DetectionService.analyze_results                                        *)
(***************************************************************************)
ToxicityWarnAbove == 50
InjectionWarnAbove == 30
TopicWarnAbove == 50
SpamWarnAbove == 40
FactCheckWarnAbove == 70

Acc0 == [blocked |-> FALSE, blocking_reasons |-> <<>>, warnings |-> <<>>, scores |-> EmptyMap]

\* blocked is set and no reason is recorded
BlockWithoutReason(acc, line) == [acc EXCEPT !.blocked = TRUE]

Block(acc, line) == [acc EXCEPT !.blocked = TRUE, !.blocking_reasons = Append(@, line)]

Warn(acc, line) == [acc EXCEPT !.warnings = Append(@, line)]

Score(acc, name, value) == [acc EXCEPT !.scores = Update(@, [k \in {name} |-> value])]

\* the test of a kind's own verdict: if is_toxic / has_pii / is_injection / ...
BlockConditionForgetsSpam(name, r) == r.flag /\ name # "spam"

BlockCondition(name, r) == r.flag

\* the elif of a kind (fact_check: its only test): the warn condition
WarnConditionInclusive(name, r) ==
    CASE name = "toxicity" -> r.confidence >= ToxicityWarnAbove
      [] name = "prompt_injection" -> r.confidence >= InjectionWarnAbove
      [] name = "topic" -> r.confidence >= TopicWarnAbove
      [] name = "spam" -> r.confidence >= SpamWarnAbove
      [] name = "fact_check" -> r.flag /\ r.confidence >= FactCheckWarnAbove
      [] OTHER -> FALSE

WarnCondition(name, r) ==
    CASE name = "toxicity" -> r.confidence > ToxicityWarnAbove
      [] name = "prompt_injection" -> r.confidence > InjectionWarnAbove
      [] name = "topic" -> r.confidence > TopicWarnAbove
      [] name = "spam" -> r.confidence > SpamWarnAbove
      [] name = "fact_check" -> r.flag /\ r.confidence > FactCheckWarnAbove
      [] OTHER -> FALSE

\* an outcome that carries an error: a warning "<name>: <error>", then continue
ErrorEntryBlocks(acc, name, outcome) == Block(acc, Line("error", name, outcome.error, 0))

ErrorEntry(acc, name, outcome) == Warn(acc, Line("error", name, outcome.error, 0))

\* one iteration of the loop over results.items()
AnalyzeEntry(acc, name, outcome) ==
    IF outcome.error # "" THEN ErrorEntry(acc, name, outcome)
    ELSE LET r == outcome.result[1]
             c == r.confidence
         IN  CASE name = "toxicity" ->
                    LET a == Score(acc, name, c)
                    IN  IF BlockCondition(name, r) THEN Block(a, Line("Toxic content detected", name, "", c))
                        ELSE IF WarnCondition(name, r) THEN Warn(a, Line("Potential toxicity detected", name, "", c))
                        ELSE a
               [] name = "pii" ->
                    LET a == IF BlockCondition(name, r) THEN Block(acc, Line("PII detected", name, r.detail, 0)) ELSE acc
                    IN  Score(a, name, IF r.flag THEN 100 ELSE 0)
               [] name = "prompt_injection" ->
                    LET a == Score(acc, name, c)
                    IN  IF BlockCondition(name, r) THEN Block(a, Line("Prompt injection detected", name, "", c))
                        ELSE IF WarnCondition(name, r) THEN Warn(a, Line("Potential prompt injection", name, "", c))
                        ELSE a
               [] name = "topic" ->
                    LET a == Score(acc, name, c)
                    IN  IF BlockCondition(name, r) THEN Block(a, Line("Restricted topic detected", name, "", c))
                        ELSE IF WarnCondition(name, r) THEN Warn(a, Line("Potentially restricted topic", name, "", c))
                        ELSE a
               [] name = "spam" ->
                    LET a == Score(acc, name, c)
                    IN  IF BlockCondition(name, r) THEN Block(a, Line("Spam detected", name, "", c))
                        ELSE IF WarnCondition(name, r) THEN Warn(a, Line("Potential spam", name, "", c))
                        ELSE a
               [] name = "fact_check" ->
                    LET a == Score(acc, name, c)
                    IN  IF WarnCondition(name, r)
                            THEN Warn(a, Line("Response may contain claims needing fact-checking", name, "", 0))
                        ELSE a
               [] OTHER -> acc

\* the loop with a break after the first blocking outcome
RECURSIVE AnalyzeLoopStopsAtBlock(_, _)
AnalyzeLoopStopsAtBlock(acc, results) ==
    IF results = <<>> \/ acc.blocked THEN acc
    ELSE AnalyzeLoopStopsAtBlock(AnalyzeEntry(acc, Head(results).name, Head(results).outcome), Tail(results))

\* for detector_name, detector_result in results.items(): no break, no return
RECURSIVE AnalyzeLoop(_, _)
AnalyzeLoop(acc, results) ==
    IF results = <<>> THEN acc
    ELSE AnalyzeLoop(AnalyzeEntry(acc, Head(results).name, Head(results).outcome), Tail(results))

\* result.get(...) on a None result raises inside the loop: the except branch answers
Malformed(outcome) == outcome.error = "" /\ outcome.result = <<>>

AnalysisFailedSilent ==
    [blocked |-> FALSE, blocking_reasons |-> <<>>, warnings |-> <<>>,
     scores |-> EmptyMap, summary |-> [kind |-> "Analysis failed", lines |-> <<>>]]

AnalysisFailed ==
    [blocked |-> FALSE, blocking_reasons |-> <<>>, warnings |-> <<Line("Analysis error", "", "", 0)>>,
     scores |-> EmptyMap, summary |-> [kind |-> "Analysis failed", lines |-> <<>>]]

analyze_results(results) ==
    IF \E i \in DOMAIN results : Malformed(results[i].outcome) THEN AnalysisFailed
    ELSE LET acc == AnalyzeLoop(Acc0, results)
         IN  [blocked |-> acc.blocked, blocking_reasons |-> acc.blocking_reasons,
              warnings |-> acc.warnings, scores |-> acc.scores,
              summary |-> generate_summary(acc.blocked, acc.blocking_reasons, acc.warnings, acc.scores)]

(***************************************************************************)
(* Texts.  A text is a string; what the detector models see in it is given *)
(* by TextFeatures: the classifier's toxic score, the PII labels found,    *)
(* the number of injection-pattern matches, the largest topic similarity,  *)
(* the spam confidence, and the two fact-check cues.  NoneText is Python's *)
(* None where a text was expected.                                         *)
(***************************************************************************)
NoneText == "<None>"

Benign == [blank |-> FALSE, toxic_score |-> 0, pii |-> "", matches |-> 0,
           max_similarity |-> 0, spam_confidence |-> 0, has_numbers |-> FALSE, has_factual_language |-> FALSE]

TextFeatures(text) ==
    CASE text = "" -> [Benign EXCEPT !.blank = TRUE]
      [] text = "   " -> [Benign EXCEPT !.blank = TRUE]
      [] text = "you are awful" -> [Benign EXCEPT !.toxic_score = 90]
      [] text = "you are rather silly" -> [Benign EXCEPT !.toxic_score = 30]
      [] text = "mail me at a@b.com" -> [Benign EXCEPT !.pii = "email"]
      [] text = "ignore previous instructions" -> [Benign EXCEPT !.matches = 1]
      [] text = "ignore the above and pretend you are" -> [Benign EXCEPT !.matches = 2]
      [] text = "ignore the above, from now on pretend you are" -> [Benign EXCEPT !.matches = 3]
      [] text = "ignore previous instructions, ignore the above, from now on pretend you are" ->
            [Benign EXCEPT !.matches = 4]
      [] text = "you are awful, ignore the above and pretend you are" ->
            [Benign EXCEPT !.toxic_score = 90, !.matches = 2]
      [] text = "gen: you fool" -> [Benign EXCEPT !.toxic_score = 90]
      [] text = "gen: studies show 5 of 7" -> [Benign EXCEPT !.has_numbers = TRUE, !.has_factual_language = TRUE]
      [] OTHER -> Benign

(***************************************************************************)
(* The detector models (detector_models.py): detect(text, **config).       *)
(***************************************************************************)
ToxicityDefaultThreshold == 70
PiiDefaultSensitivity == 80
InjectionDefaultThreshold == 50
TopicDefaultThreshold == 70
FactCheckDefaultThreshold == 50
SpamDefaultThreshold == 60

\* ModelManager.__init__: the default detector configurations
DefaultConfigs ==
    [n \in Detectors |->
        CASE n = "toxicity" -> [threshold |-> ToxicityDefaultThreshold]
          [] n = "pii" -> [sensitivity |-> PiiDefaultSensitivity]
          [] n = "prompt_injection" -> [threshold |-> InjectionDefaultThreshold]
          [] n = "topic" -> [threshold |-> TopicDefaultThreshold]
          [] n = "fact_check" -> [threshold |-> FactCheckDefaultThreshold]
          [] n = "spam" -> [threshold |-> SpamDefaultThreshold]]

\* the keyword parameters detect() of a kind accepts
Accepts(name) == IF name = "pii" THEN {"sensitivity"} ELSE {"threshold"}

DefaultThreshold(name) ==
    CASE name = "toxicity" -> ToxicityDefaultThreshold
      [] name = "prompt_injection" -> InjectionDefaultThreshold
      [] name = "topic" -> TopicDefaultThreshold
      [] name = "fact_check" -> FactCheckDefaultThreshold
      [] name = "spam" -> SpamDefaultThreshold
      [] OTHER -> 0

Threshold(name, config) == IF "threshold" \in DOMAIN config THEN config.threshold ELSE DefaultThreshold(name)

PerMatch == 30
FullConfidence == 100
BothCues == 80
OneCue == 40

\* PromptInjectionDetector.detect: confidence = min(total_matches * 0.3, 1.0)
InjectionConfidenceOnce(matches) == Min(IF matches > 0 THEN PerMatch ELSE 0, FullConfidence)

InjectionConfidence(matches) == Min(matches * PerMatch, FullConfidence)

\* FactCheckDetector.detect
FactCheckConfidence(f) ==
    IF f.has_numbers /\ f.has_factual_language THEN BothCues
    ELSE IF f.has_numbers \/ f.has_factual_language THEN OneCue
    ELSE 0

\* the body of <Kind>Detector.detect on a text, with the merged config
DetectorResult(name, text, config) ==
    LET f == TextFeatures(text)
        t == Threshold(name, config)
    IN  IF f.blank THEN Result(FALSE, 0, "")
        ELSE CASE name = "toxicity" -> Result(f.toxic_score > t, f.toxic_score, "")
               [] name = "pii" -> Result(f.pii # "", 0, f.pii)
               [] name = "prompt_injection" -> Result(InjectionConfidence(f.matches) > t, InjectionConfidence(f.matches), "")
               [] name = "topic" -> Result(f.max_similarity > t, f.max_similarity, "")
               [] name = "fact_check" -> Result(FactCheckConfidence(f) > t, FactCheckConfidence(f), "")
               [] name = "spam" -> Result(f.spam_confidence > t, f.spam_confidence, "")

(***************************************************************************)
(* ModelManager.  An operation that may raise returns [raised, value]:     *)
(* raised is the text of the exception, "" when it returned.  `fail` is    *)
(* the set of detectors whose model raises in this call.                   *)
(***************************************************************************)
Returned(v) == [raised |-> "", value |-> <<v>>]

Raised(e) == [raised |-> e, value |-> <<>>]

\* ModelManager.update_detector_config
update_detector_config(configs, name, config) ==
    IF name \in DOMAIN configs THEN [configs EXCEPT ![name] = Update(@, config)] ELSE configs

\* config = self.detector_configs.get(name, {}); config.update(kwargs):
\* the stored mapping itself is updated
MergedConfig(configs, name, kwargs) == update_detector_config(configs, name, kwargs)

\* ModelManager.detect: [raised, value, configs], configs being detector_configs afterwards
detect(configs, loaded, text, name, kwargs, fail) ==
    IF name \notin loaded THEN [raised |-> "Detector not loaded", value |-> <<>>, configs |-> configs]
    ELSE LET after == MergedConfig(configs, name, kwargs)
             config == IF name \in DOMAIN configs THEN after[name] ELSE kwargs
         IN  IF ~(DOMAIN config \subseteq Accepts(name))
                 THEN [raised |-> "unexpected keyword argument", value |-> <<>>, configs |-> after]
             ELSE IF text = NoneText
                 THEN [raised |-> "detection failed: 'NoneType' object has no attribute 'strip'", value |-> <<>>, configs |-> after]
             ELSE IF name \in fail
                 THEN [raised |-> "detection failed", value |-> <<>>, configs |-> after]
             ELSE [raised |-> "", value |-> <<DetectorResult(name, text, config)>>, configs |-> after]

\* one task of detect_all, awaited inside try/except
TaskOutcome(configs, loaded, text, name, fail) ==
    LET d == detect(configs, loaded, text, name, EmptyMap, fail)
    IN  IF d.raised # "" THEN ErrorOutcome(d.raised) ELSE OkOutcome(d.value[1])

FirstFailure(configs, loaded, text, order, fail) ==
    IF \E i \in DOMAIN order : TaskOutcome(configs, loaded, text, order[i], fail).error # ""
    THEN CHOOSE i \in DOMAIN order :
            /\ TaskOutcome(configs, loaded, text, order[i], fail).error # ""
            /\ \A j \in 1..(i - 1) : TaskOutcome(configs, loaded, text, order[j], fail).error = ""
    ELSE 0

\* detect_all without its try/except: the first failing task ends the call
detect_all_unguarded(configs, loaded, active, text, active_only, fail) ==
    LET order == SetOrder((IF active_only THEN active ELSE loaded) \cap loaded)
        k == FirstFailure(configs, loaded, text, order, fail)
    IN  IF k = 0 THEN Returned([i \in DOMAIN order |-> Entry(order[i], TaskOutcome(configs, loaded, text, order[i], fail))])
        ELSE Raised(TaskOutcome(configs, loaded, text, order[k], fail).error)

\* ModelManager.detect_all
detect_all(configs, loaded, active, text, active_only, fail) ==
    LET order == SetOrder((IF active_only THEN active ELSE loaded) \cap loaded)
    IN  Returned([i \in DOMAIN order |-> Entry(order[i], TaskOutcome(configs, loaded, text, order[i], fail))])

(***************************************************************************)
(* DetectionService.run_detection.  detector_names is <<>> for None, else  *)
(* <<list>>; detector_config is a mapping name -> config (EmptyMap for     *)
(* None).  The result is [raised, value, configs].                         *)
(***************************************************************************)
EmptyInput ==
    [results |-> <<>>, blocked |-> FALSE, blocking_reasons |-> <<>>,
     summary |-> [kind |-> "Empty input", lines |-> <<>>], detectors_used |-> <<>>]

\* for detector_name, config in detector_config.items(): if detector_name in detector_names: update
RECURSIVE ApplyDetectorConfig(_, _, _, _)
ApplyDetectorConfig(configs, order, detector_config, names) ==
    IF order = <<>> THEN configs
    ELSE ApplyDetectorConfig(
            IF Head(order) \in names THEN update_detector_config(configs, Head(order), detector_config[Head(order)])
            ELSE configs,
            Tail(order), detector_config, names)

\* filtered_results: the entries of detect_all whose name was requested
RECURSIVE FilterResults(_, _)
FilterResults(results, names) ==
    IF results = <<>> THEN <<>>
    ELSE IF Head(results).name \in names THEN <<Head(results)>> \o FilterResults(Tail(results), names)
         ELSE FilterResults(Tail(results), names)

\* line 18: not text.strip()
IsEmptyInputUnstripped(text) == text = ""

IsEmptyInput(text) == TextFeatures(text).blank

run_detection(configs, loaded, active, text, detector_names, detector_config, fail) ==
    IF text = NoneText
        THEN [raised |-> "Detection service failed: 'NoneType' object has no attribute 'strip'",
              value |-> <<>>, configs |-> configs]
    ELSE IF IsEmptyInput(text) THEN [raised |-> "", value |-> <<EmptyInput>>, configs |-> configs]
    ELSE LET names == IF detector_names = <<>> THEN SetOrder(active) ELSE detector_names[1]
             after == ApplyDetectorConfig(configs, SetOrder(DOMAIN detector_config), detector_config, Range(names))
             all == detect_all(after, loaded, active, text, FALSE, fail)
         IN  IF all.raised # ""
                 THEN [raised |-> "Detection service failed", value |-> <<>>, configs |-> after]
             ELSE LET filtered == FilterResults(all.value[1], Range(names))
                      analysis == analyze_results(filtered)
                  IN  [raised |-> "",
                       value |-> <<[results |-> filtered, blocked |-> analysis.blocked,
                                    blocking_reasons |-> analysis.blocking_reasons,
                                    summary |-> analysis.summary, detectors_used |-> names]>>,
                       configs |-> after]

(***************************************************************************)
(* DetectionService.validate_input                                         *)
(***************************************************************************)
MaxLength == 10000

LongText == "x repeated 10001 times"

ExactText == "x repeated 10000 times"

TextLength(text) ==
    CASE text = "" -> 0
      [] text = "   " -> 3
      [] text = LongText -> MaxLength + 1
      [] text = ExactText -> MaxLength
      [] OTHER -> 40

\* validate_input with len(text) >= max_length as the length test
validate_input_inclusive(text) ==
    LET too_long == IF TextLength(text) >= MaxLength THEN <<Line("Text too long", "", "", TextLength(text))>> ELSE <<>>
        empty == IF TextFeatures(text).blank THEN <<Line("Empty text provided", "", "", 0)>> ELSE <<>>
    IN  [valid |-> too_long \o empty = <<>>, errors |-> too_long \o empty]

validate_input(text) ==
    LET too_long == IF TextLength(text) > MaxLength THEN <<Line("Text too long", "", "", TextLength(text))>> ELSE <<>>
        empty == IF TextFeatures(text).blank THEN <<Line("Empty text provided", "", "", 0)>> ELSE <<>>
    IN  [valid |-> too_long \o empty = <<>>, errors |-> too_long \o empty]

(***************************************************************************)
(* The generation collaborators: rails.generate_async, ollama_client       *)
(* .generate and ollama_client.chat.  A call answers with a text, answers  *)
(* without the expected key, answers with a null content, or raises.       *)
(***************************************************************************)
GenTexts == {"gen: fine", "gen: you fool"}

GenOutcomes ==
    {[kind |-> "text", text |-> t] : t \in GenTexts}
    \cup {[kind |-> k, text |-> ""] : k \in {"missing", "null", "raise"}}

ValidationRefusal == "I cannot process this message due to input validation errors."
FlaggedRefusal == "I cannot provide a response to this message as it was flagged by our safety systems."
OutputFlaggedRefusal == "I apologize, but I cannot provide a response as my output was flagged by safety systems."
ProcessingErrorApology == "I apologize, but I encountered an error processing your message."
CannotProceedRefusal == "I cannot proceed with that request. Is there anything else I can help you with?"
CouldNotGenerate == "I apologize, but I couldn't generate a response."
CouldNotGenerateNow == "I apologize, but I couldn't generate a response at this time."
GenerationErrorApology == "I apologize, but I encountered an error while generating a response."
SafetyRefusal == "I apologize, but I cannot provide that response due to safety concerns."

\* ChatService._generate_ai_response: everything is caught and replaced by an apology
generate_ai_response(outcome) ==
    CASE outcome.kind = "text" -> outcome.text
      [] outcome.kind = "missing" -> CouldNotGenerateNow
      [] OTHER -> GenerationErrorApology

\* lines 177-185: ollama_response.get("message", {}).get("content", default), or the except branch
chat_response(outcome) ==
    CASE outcome.kind = "text" -> outcome.text
      [] outcome.kind = "missing" -> CouldNotGenerate
      [] outcome.kind = "null" -> NoneText
      [] OTHER -> GenerationErrorApology

(***************************************************************************)
(* ChatService.process_message, one step per await that suspends.          *)
(***************************************************************************)
ContextWindow == 10

LastN(s, n) == IF Len(s) <= n THEN s ELSE SubSeq(s, Len(s) - n + 1, Len(s))

RECURSIVE NotBlocked(_)
NotBlocked(s) ==
    IF s = <<>> THEN <<>>
    ELSE IF Head(s).blocked THEN NotBlocked(Tail(s))
         ELSE <<[role |-> Head(s).role, content |-> Head(s).content]>> \o NotBlocked(Tail(s))

\* lines 159-174: the messages handed to ollama_client.chat
conversation_messages(history, message) ==
    NotBlocked(LastN(history, ContextWindow)) \o <<[role |-> "user", content |-> message]>>

NewCall ==
    [pc |-> "new", message |-> "", session_id |-> "", mode |-> "", ai_response |-> "",
     assistant_response |-> "", context |-> <<>>, trace |-> <<>>, faults |-> {}, envelope |-> <<>>]

Envelope(response, blocked, blocking_reasons, error) ==
    [response |-> response, blocked |-> blocked, blocking_reasons |-> blocking_reasons,
     warnings |-> <<>>, output_analysis |-> <<>>, error |-> error, raised |-> ""]

\* lines 217-231: the envelope of a message that went through the last output
\* check; 'warnings' is set only when output_result has a non-empty 'warnings'
EnvelopeWarnings(output_result) ==
    IF "warnings" \in DOMAIN output_result THEN output_result.warnings ELSE <<>>

Delivered(response, blocked, blocking_reasons, output_result) ==
    [Envelope(response, blocked, blocking_reasons, "") EXCEPT
        !.warnings = EnvelopeWarnings(output_result), !.output_analysis = <<output_result>>]

\* the outer except of process_message (lines 236-246)
FaultEnvelopeUnblocked(e) == Envelope(ProcessingErrorApology, FALSE, <<>>, e)

FaultEnvelope(e) == Envelope(ProcessingErrorApology, TRUE, <<Line("Processing error", "", e, 0)>>, e)

\* the guardrails_result of a fault in the detection process (lines 122-130, 287-297)
ProcessingError(e) ==
    [response |-> ProcessingErrorApology, blocked |-> TRUE, blocking_reasons |-> <<Line("Processing error", "", e, 0)>>]

UserRecord(c, call) ==
    [role |-> "user", content |-> call.message, blocked |-> FALSE, blocking_reasons |-> <<>>, call |-> c]

AssistantRecord(c, content, blocked, blocking_reasons) ==
    [role |-> "assistant", content |-> content, blocked |-> blocked, blocking_reasons |-> blocking_reasons, call |-> c]

\* the callers have taken the envelopes of the calls that returned earlier
Taken == [d \in DOMAIN calls |-> IF calls[d].pc = "returned" THEN [NewCall EXCEPT !.pc = "taken"] ELSE calls[d]]

Returns(c, call, envelope) ==
    /\ calls' = [Taken EXCEPT ![c] = [call EXCEPT !.pc = "returned", !.envelope = <<envelope>>]]
    /\ processed' = [processed EXCEPT ![call.session_id] = @ + 1]

\* list.insert(0, ...) in the place of list.extend
ExtendedAtFront(history, records) == records \o history

\* only the response record is appended
ExtendedResponseOnly(history, records) == Append(history, records[Len(records)])

\* list.extend
Extended(history, records) == history \o records

\* self.chat_history[session_id].extend([message_record, response_record]) and the
\* return after it; a session id that is no longer a key raises KeyError
ExtendAndReturnEnvelope(c, call, content, blocked, blocking_reasons, envelope) ==
    IF call.session_id \in DOMAIN chat_history
    THEN /\ chat_history' = [chat_history EXCEPT ![call.session_id] =
                                Extended(@, <<UserRecord(c, call), AssistantRecord(c, content, blocked, blocking_reasons)>>)]
         /\ Returns(c, call, envelope)
    ELSE /\ chat_history' = chat_history
         /\ Returns(c, [call EXCEPT !.faults = @ \cup {"history"}], FaultEnvelope("KeyError"))

ExtendAndReturn(c, call, content, blocked, blocking_reasons) ==
    ExtendAndReturnEnvelope(c, call, content, blocked, blocking_reasons,
                            Envelope(content, blocked, blocking_reasons, ""))

\* what follows the input check: return at once when blocked, else generate
AfterInputCheckAlwaysGenerates(blocked) == "generate"

AfterInputCheck(blocked) == IF blocked THEN "return" ELSE "generate"

\* lines 194-200: the text delivered after the output check
DeliveredTextUnchecked(blocked, assistant_response) == assistant_response

DeliveredText(blocked, assistant_response) == IF blocked THEN SafetyRefusal ELSE assistant_response

\* lines 156-179: build the context and start ollama_client.chat; reading a
\* session that is no longer a key raises inside the try, and chat is not called.
\* ai_response went into guardrails_result["response"] (line 116), which is not
\* read on this path: the local is dead from here on
StartChat(c, call) ==
    IF call.session_id \in DOMAIN chat_history
    THEN [call EXCEPT !.pc = "chat", !.ai_response = "",
                      !.context = conversation_messages(chat_history[call.session_id], call.message),
                      !.trace = Append(@, "ollama.chat")]
    ELSE [call EXCEPT !.pc = "output_check", !.ai_response = "", !.assistant_response = GenerationErrorApology,
                      !.faults = @ \cup {"generation"}]

(***************************************************************************)
(* The decision engine applied to bounded outcome maps                     *)
(***************************************************************************)
MaxOutcomes == 3

ConfLevels == {30, 80}

\* the outcomes a detector of a kind can hand to the decision engine
OutcomesAt(name, levels) ==
    {ErrorOutcome("detection failed")}
    \cup {OkOutcome(Result(f, c, IF name = "pii" /\ f THEN "email" ELSE "")) :
            f \in BOOLEAN, c \in (IF name = "pii" THEN {0} ELSE levels)}

OutcomesOf(name) == OutcomesAt(name, ConfLevels)

MMInit ==
    /\ detectors = {}
    /\ active_detectors = {}
    /\ detector_configs = EmptyMap

ChatInit ==
    /\ chat_history = EmptyMap
    /\ session_configs = EmptyMap
    /\ is_initialized = FALSE
    /\ gm_active_detectors = <<>>
    /\ policy = <<>>
    /\ calls = EmptyMap
    /\ processed = EmptyMap

InitAnalyze ==
    /\ MMInit
    /\ ChatInit
    /\ arg = <<>>
    /\ ret = <<>>

\* the caller puts one more detector outcome into the map
AddOutcome ==
    /\ ret = <<>>
    /\ Len(arg) < MaxOutcomes
    /\ \E n \in Detectors \ Names(arg) : \E o \in OutcomesOf(n) : arg' = Append(arg, Entry(n, o))
    /\ UNCHANGED <<mm_vars, chat_vars, ret>>

Analyze ==
    /\ ret = <<>>
    /\ ret' = <<analyze_results(arg)>>
    /\ UNCHANGED <<mm_vars, chat_vars, arg>>

NextAnalyze == AddOutcome \/ Analyze

SpecAnalyze == InitAnalyze /\ [][NextAnalyze]_vars

\* the block condition of the decision table, per entry
SatisfiesBlockCondition(e) ==
    /\ e.outcome.error = ""
    /\ e.name \in {"toxicity", "pii", "prompt_injection", "topic", "spam"}
    /\ e.outcome.result[1].flag

\* C5: analyze_results(outcomes).blocked is true if and only if at least one
\* outcome satisfies its kind's block condition (fact_check never blocks).
C5_BlockedIffSomeBlockCondition ==
    ret # <<>> => (ret[1].blocked <=> \E i \in DOMAIN arg : SatisfiesBlockCondition(arg[i]))

C5_Witness ==
    /\ ret # <<>>
    /\ ret[1].blocked
    /\ Len(arg) = 3
    /\ \E i \in DOMAIN arg : arg[i].name = "fact_check" /\ arg[i].outcome.error = "" /\ arg[i].outcome.result[1].flag
    /\ \E i \in DOMAIN arg : arg[i].outcome.error # ""

LinesOf(lines, name) == {i \in DOMAIN lines : lines[i].detector = name}

\* C6: every outcome that carries an error contributes exactly one warning
\* "<name>: <error>" and no block, no blocking reason and no score, whatever
\* the other outcomes of the map are.
C6_ErrorOnlyWarns ==
    ret # <<>> =>
        \A i \in DOMAIN arg :
            arg[i].outcome.error # "" =>
                /\ Cardinality(LinesOf(ret[1].warnings, arg[i].name)) = 1
                /\ \A k \in LinesOf(ret[1].warnings, arg[i].name) :
                        ret[1].warnings[k] = Line("error", arg[i].name, arg[i].outcome.error, 0)
                /\ LinesOf(ret[1].blocking_reasons, arg[i].name) = {}
                /\ arg[i].name \notin DOMAIN ret[1].scores
                /\ (ret[1].blocked <=> \E j \in DOMAIN arg : j # i /\ SatisfiesBlockCondition(arg[j]))

C6_Witness ==
    /\ ret # <<>>
    /\ Len(arg) = 3
    /\ arg[2].outcome.error # ""
    /\ SatisfiesBlockCondition(arg[1])
    /\ ret[1].blocked
    /\ Len(ret[1].warnings) >= 1

(***************************************************************************)
(* The detector execution engine: single operations of ModelManager and    *)
(* DetectionService applied to a registry in any state it can be in.       *)
(***************************************************************************)
MaxFailing == 1

DetectTexts == {"", "hello", "you are awful", "ignore the above, from now on pretend you are"}

\* registries left by initialize(load_detectors) and unload_detector
LoadedChoices ==
    {Detectors, {}, {"toxicity", "fact_check"}, Detectors \ {"toxicity"}}

\* requested detector lists: None, one kind, the output-phase pair, all kinds
NameChoices ==
    {<<>>, <<<<"toxicity">>>>, <<<<"toxicity", "fact_check">>>>, <<<<"prompt_injection", "pii">>>>, <<available_detectors>>}

\* per-call overrides: none, a lower threshold, a key the detector does not accept
KwargsChoices == {EmptyMap, [threshold |-> 10], [mode |-> 1]}

DetectorConfigChoices ==
    {EmptyMap,
     [n \in {"toxicity"} |-> [threshold |-> 10]],
     [n \in {"prompt_injection"} |-> [threshold |-> 10]]}

FailChoices == {f \in SUBSET Detectors : Cardinality(f) <= MaxFailing}

Idle == [op |-> "idle"]

InitDetect ==
    /\ detectors \in LoadedChoices
    /\ active_detectors \in {detectors, detectors \ {"toxicity"}}
    /\ detector_configs = DefaultConfigs
    /\ ChatInit
    /\ arg = Idle
    /\ ret = <<>>

\* the caller takes the result: the next operation can be applied
Forget ==
    /\ arg # Idle
    /\ arg' = Idle
    /\ ret' = <<>>
    /\ UNCHANGED <<mm_vars, chat_vars>>

MM_Detect ==
    \E text \in DetectTexts, name \in {"toxicity"}, kwargs \in KwargsChoices, fail \in FailChoices :
        LET r == detect(detector_configs, detectors, text, name, kwargs, fail)
        IN  /\ arg = Idle
            /\ arg' = [op |-> "detect", text |-> text, name |-> name, kwargs |-> kwargs, fail |-> fail,
                       configs_before |-> detector_configs]
            /\ ret' = <<[raised |-> r.raised, value |-> r.value]>>
            /\ detector_configs' = r.configs
            /\ UNCHANGED <<detectors, active_detectors, chat_vars>>

MM_DetectAll ==
    \E text \in DetectTexts, active_only \in BOOLEAN, fail \in FailChoices :
        /\ arg = Idle
        /\ arg' = [op |-> "detect_all", text |-> text, active_only |-> active_only, fail |-> fail,
                   configs_before |-> detector_configs]
        /\ ret' = <<detect_all(detector_configs, detectors, active_detectors, text, active_only, fail)>>
        /\ UNCHANGED <<mm_vars, chat_vars>>

DS_RunDetectionOn(texts, name_choices) ==
    \E text \in texts, names \in name_choices, dc \in DetectorConfigChoices, fail \in FailChoices :
        /\ arg = Idle
        /\ \E r \in {run_detection(detector_configs, detectors, active_detectors, text, names, dc, fail)} :
              /\ arg' = [op |-> "run_detection", text |-> text, detector_names |-> names, detector_config |-> dc,
                         fail |-> fail, configs_before |-> detector_configs]
              /\ ret' = <<[raised |-> r.raised, value |-> r.value]>>
              /\ detector_configs' = r.configs
              /\ UNCHANGED <<detectors, active_detectors, chat_vars>>

DS_RunDetection == DS_RunDetectionOn(DetectTexts, NameChoices)

MM_UpdateDetectorConfig ==
    \E name \in {"toxicity"}, config \in KwargsChoices \ {EmptyMap} :
        /\ arg = Idle
        /\ UNCHANGED <<arg, ret>>
        /\ detector_configs' = update_detector_config(detector_configs, name, config)
        /\ UNCHANGED <<detectors, active_detectors, chat_vars>>

NextDetect == MM_Detect \/ MM_DetectAll \/ DS_RunDetection \/ MM_UpdateDetectorConfig \/ Forget

SpecDetect == InitDetect /\ [][NextDetect]_vars

\* the detectors detect_all runs: the active or the loaded ones, if loaded
DetectorsToUse == (IF arg.active_only THEN active_detectors ELSE detectors) \cap detectors

\* C7: when a detector raises during detect_all, the result mapping holds an
\* error outcome for that detector name only, every other detector of the batch
\* has the outcome it has when no detector fails, and detect_all does not raise.
C7_FailureIsolation ==
    arg.op = "detect_all" =>
        LET base == detect_all(arg.configs_before, detectors, active_detectors, arg.text, arg.active_only, {})
        IN  /\ ret[1].raised = ""
            /\ Names(ret[1].value[1]) = DetectorsToUse
            /\ Len(ret[1].value[1]) = Cardinality(DetectorsToUse)
            /\ \A n \in DetectorsToUse :
                    /\ n \in arg.fail => OutcomeOf(ret[1].value[1], n).error # "" /\ OutcomeOf(ret[1].value[1], n).result = <<>>
                    /\ n \notin arg.fail => OutcomeOf(ret[1].value[1], n) = OutcomeOf(base.value[1], n)

C7_Witness ==
    /\ arg.op = "detect_all"
    /\ arg.fail = {"toxicity"}
    /\ {"toxicity", "prompt_injection", "spam"} \subseteq DetectorsToUse
    /\ OutcomeOf(ret[1].value[1], "toxicity").error # ""
    /\ OutcomeOf(ret[1].value[1], "prompt_injection").error = ""
    /\ OutcomeOf(ret[1].value[1], "prompt_injection").result[1].flag

\* the detector names a run_detection call asks for
Requested == IF arg.detector_names = <<>> THEN active_detectors ELSE Range(arg.detector_names[1])

\* C8: for every non-empty text and every requested subset of the known
\* detector names, loaded or not, the results mapping of run_detection has
\* exactly one entry per requested name.
C8_OneEntryPerRequested ==
    (arg.op = "run_detection" /\ ~TextFeatures(arg.text).blank) =>
        /\ ret[1].raised = ""
        /\ Names(ret[1].value[1].results) = Requested
        /\ Len(ret[1].value[1].results) = Cardinality(Requested)

\* C9: a single detection call (detect with overrides, run_detection with a
\* detector_config) leaves the stored per-detector configuration unchanged.
C9_StoredConfigUnchanged ==
    arg.op \in {"detect", "run_detection"} => detector_configs = arg.configs_before


(***************************************************************************)
(* The chat orchestrator: ChatService and GuardrailsManager driven by      *)
(* callers that send one message after the other.                          *)
(***************************************************************************)
MaxCalls == 2

CallIds == 1 .. MaxCalls

Sessions == {"s1", "s2"}

\* what a caller can send; NoneText is a JSON null on the websocket route
UserTexts == {"hello", "you are awful", "", NoneText}

\* the detector_config argument of process_message: the callers of this
\* specification send none
SessionConfigChoices == {EmptyMap}

\* rails.generate_async answers or raises
RailsOutcomes == {"text", "raise"}

\* detector faults the environment can inject into one detection
ChatFailChoices == {{}, {"toxicity"}}

InFlight(call) == call.pc \notin {"new", "returned", "taken"}

\* the application after startup: ModelManager.initialize() has loaded every
\* available detector, ChatService is constructed and not yet initialized
Init ==
    /\ detectors = Detectors
    /\ active_detectors = Detectors
    /\ detector_configs = DefaultConfigs
    /\ chat_history = EmptyMap
    /\ session_configs = EmptyMap
    /\ is_initialized = FALSE
    /\ gm_active_detectors = <<>>
    /\ policy = <<>>
    /\ calls = [c \in CallIds |-> NewCall]
    /\ processed = [s \in Sessions |-> 0]
    /\ arg = Idle
    /\ ret = <<>>

\* ChatService.initialize -> GuardrailsManager.initialize / load_configuration
CS_Initialize ==
    /\ ~is_initialized
    /\ is_initialized' = TRUE
    /\ gm_active_detectors' = available_detectors
    /\ UNCHANGED <<mm_vars, chat_history, session_configs, policy, calls, processed, arg, ret>>

\* ChatService.clear_chat_history
CS_ClearChatHistory(session_id) ==
    /\ session_id \in DOMAIN chat_history
    /\ chat_history' = [s \in DOMAIN chat_history \ {session_id} |-> chat_history[s]]
    /\ session_configs' = [s \in DOMAIN session_configs \ {session_id} |-> session_configs[s]]
    /\ processed' = [processed EXCEPT ![session_id] = 0]
    /\ UNCHANGED <<mm_vars, is_initialized, gm_active_detectors, policy, calls, arg, ret>>

\* lines 34-69 up to the first detection: session initialisation, the log
\* line that slices the message, validate_input
PM_Begin(c, message, session_id, detector_config) ==
    LET call == [NewCall EXCEPT !.message = message, !.session_id = session_id,
                                !.mode = IF is_initialized THEN "guardrails" ELSE "simplified"]
        validation == validate_input(message)
    IN  /\ calls[c].pc = "new"
        /\ chat_history' = IF session_id \in DOMAIN chat_history THEN chat_history
                           ELSE [s \in DOMAIN chat_history \cup {session_id} |->
                                    IF s = session_id THEN <<>> ELSE chat_history[s]]
        /\ session_configs' =
              LET known == IF session_id \in DOMAIN chat_history THEN session_configs
                           ELSE [s \in DOMAIN session_configs \cup {session_id} |->
                                    IF s = session_id THEN detector_config ELSE session_configs[s]]
              IN  IF detector_config = EmptyMap THEN known
                  ELSE [known EXCEPT ![session_id] = Update(@, detector_config)]
        /\ IF message = NoneText
           THEN Returns(c, [call EXCEPT !.faults = {"message"}],
                        FaultEnvelope("'NoneType' object is not subscriptable"))
           ELSE IF ~validation.valid
           THEN Returns(c, [call EXCEPT !.trace = <<"validate_input:rejected">>],
                        Envelope(ValidationRefusal, TRUE, validation.errors, ""))
           ELSE /\ calls' = [Taken EXCEPT ![c] = [call EXCEPT !.pc = "input_check",
                                                               !.trace = <<"validate_input:accepted">>]]
                /\ UNCHANGED processed
        /\ UNCHANGED <<mm_vars, is_initialized, gm_active_detectors, policy, arg, ret>>


AllNames == <<available_detectors>>

\* the input check: GuardrailsManager.process_message lines 237-262 with the
\* guardrails' active list, or lines 82-95 with every available name; an
\* allowed message goes on to invoke rails.generate_async or ollama_client.generate
PM_InputCheck(c, fail) ==
    /\ calls[c].pc = "input_check"
    /\ \E r \in {run_detection(detector_configs, detectors, active_detectors, calls[c].message,
                               IF calls[c].mode = "guardrails" THEN <<gm_active_detectors>> ELSE AllNames,
                               EmptyMap, fail)} :
        LET call == calls[c]
            blocked == r.raised = "" /\ r.value[1].blocked
            seen == [call EXCEPT !.trace = Append(@, IF blocked THEN "input_check:blocked" ELSE "input_check:allowed")]
            refusal == IF call.mode = "guardrails" THEN CannotProceedRefusal ELSE FlaggedRefusal
        IN  /\ detector_configs' = r.configs
            /\ IF r.raised # ""
               THEN ExtendAndReturn(c, [seen EXCEPT !.faults = @ \cup {"detection"}], ProcessingErrorApology, TRUE,
                                    ProcessingError(r.raised).blocking_reasons)
               ELSE IF AfterInputCheck(blocked) = "return"
               THEN ExtendAndReturn(c, seen, refusal, TRUE, r.value[1].blocking_reasons)
               ELSE /\ calls' = [calls EXCEPT ![c] =
                                IF call.mode = "guardrails"
                                THEN [seen EXCEPT !.pc = "generate_async", !.trace = Append(@, "rails.generate_async")]
                                ELSE [seen EXCEPT !.pc = "generate", !.trace = Append(@, "ollama.generate")]]
                    /\ UNCHANGED <<chat_history, processed>>
            /\ UNCHANGED <<detectors, active_detectors, session_configs, is_initialized, gm_active_detectors, policy, arg, ret>>

\* GuardrailsManager.process_message lines 264-297: rails.generate_async
\* answers or raises; its answer is not used by ChatService afterwards
PM_GenerateAsync(c, kind) ==
        LET call == calls[c]
            seen == call
        IN  /\ call.pc = "generate_async"
            /\ IF kind = "raise"
               THEN ExtendAndReturn(c, [seen EXCEPT !.faults = @ \cup {"rails"}], ProcessingErrorApology, TRUE,
                                    ProcessingError("generate_async failed").blocking_reasons)
               ELSE /\ calls' = [calls EXCEPT ![c] = StartChat(c, seen)]
                    /\ UNCHANGED <<chat_history, processed>>
            /\ UNCHANGED <<mm_vars, session_configs, is_initialized, gm_active_detectors, policy, arg, ret>>

\* line 98: _generate_ai_response -> ollama_client.generate
PM_Generate(c, outcome) ==
        LET call == calls[c]
        IN  /\ call.pc = "generate"
            /\ calls' = [calls EXCEPT ![c] = [call EXCEPT !.pc = "output_check1",
                            !.ai_response = generate_ai_response(outcome),
                            !.faults = @ \cup (IF outcome.kind \in {"null", "raise"} THEN {"generation"} ELSE {})]]
            /\ UNCHANGED <<mm_vars, chat_history, session_configs, is_initialized, gm_active_detectors, policy, processed, arg, ret>>

\* lines 101-121: the simplified mode's check of ai_response
PM_OutputCheck1(c, fail) ==
    /\ calls[c].pc = "output_check1"
    /\ \E r \in {run_detection(detector_configs, detectors, active_detectors, calls[c].ai_response,
                               AllNames, EmptyMap, fail)} :
        LET call == calls[c]
            blocked == r.raised = "" /\ r.value[1].blocked
            seen == [call EXCEPT !.trace = Append(@, IF blocked THEN "output_check:blocked" ELSE "output_check:allowed")]
        IN  /\ detector_configs' = r.configs
            /\ IF r.raised # ""
               THEN ExtendAndReturn(c, [seen EXCEPT !.faults = @ \cup {"detection"}], ProcessingErrorApology, TRUE,
                                    ProcessingError(r.raised).blocking_reasons)
               ELSE IF blocked
               THEN ExtendAndReturn(c, seen, OutputFlaggedRefusal, TRUE, r.value[1].blocking_reasons)
               ELSE /\ calls' = [calls EXCEPT ![c] = StartChat(c, seen)]
                    /\ UNCHANGED <<chat_history, processed>>
            /\ UNCHANGED <<detectors, active_detectors, session_configs, is_initialized, gm_active_detectors, policy, arg, ret>>

\* lines 177-185: ollama_client.chat answers
PM_Chat(c, outcome) ==
        LET call == calls[c]
        IN  /\ call.pc = "chat"
            /\ calls' = [calls EXCEPT ![c] = [call EXCEPT !.pc = "output_check",
                            !.assistant_response = chat_response(outcome),
                            !.faults = @ \cup (IF outcome.kind \in {"null", "raise"} THEN {"generation"} ELSE {})]]
            /\ UNCHANGED <<mm_vars, chat_history, session_configs, is_initialized, gm_active_detectors, policy, processed, arg, ret>>

OutputNames == <<<<"toxicity", "fact_check">>>>

\* lines 188-234: the output check, the history update and the return
PM_OutputCheck(c, fail) ==
    /\ calls[c].pc = "output_check"
    /\ \E r \in {run_detection(detector_configs, detectors, active_detectors, calls[c].assistant_response,
                               OutputNames, EmptyMap, fail)} :
        LET call == calls[c]
            blocked == r.raised = "" /\ r.value[1].blocked
            seen == [call EXCEPT !.trace = Append(@, IF blocked THEN "output_check:blocked" ELSE "output_check:allowed")]
        IN  /\ detector_configs' = r.configs
            /\ IF r.raised # ""
               THEN /\ Returns(c, [call EXCEPT !.faults = @ \cup {"detection"}], FaultEnvelope(r.raised))
                    /\ UNCHANGED chat_history
               ELSE LET reasons == IF blocked THEN r.value[1].blocking_reasons ELSE <<>>
                        text == DeliveredText(blocked, call.assistant_response)
                    IN  ExtendAndReturnEnvelope(c, seen, text, blocked, reasons,
                                                Delivered(text, blocked, reasons, r.value[1]))
            /\ UNCHANGED <<detectors, active_detectors, session_configs, is_initialized, gm_active_detectors, policy, arg, ret>>

\* no process_message call is suspended at an await
Quiescent == \A c \in DOMAIN calls : ~InFlight(calls[c])

\* one caller at a time: an operation starts when the one before has returned
Next ==
    \/ Quiescent /\ CS_Initialize
    \/ \E s \in Sessions : Quiescent /\ CS_ClearChatHistory(s)
    \/ \E c \in CallIds, m \in UserTexts, s \in Sessions, dc \in SessionConfigChoices :
          Quiescent /\ (\A d \in 1 .. c - 1 : calls[d].pc # "new") /\ PM_Begin(c, m, s, dc)
    \/ \E c \in CallIds, fail \in ChatFailChoices : PM_InputCheck(c, fail)
    \/ \E c \in CallIds, kind \in RailsOutcomes : PM_GenerateAsync(c, kind)
    \/ \E c \in CallIds, outcome \in GenOutcomes : PM_Generate(c, outcome)
    \/ \E c \in CallIds, fail \in ChatFailChoices : PM_OutputCheck1(c, fail)
    \/ \E c \in CallIds, outcome \in GenOutcomes : PM_Chat(c, outcome)
    \/ \E c \in CallIds, fail \in ChatFailChoices : PM_OutputCheck(c, fail)

Spec == Init /\ [][Next]_vars


(***************************************************************************)
(* Properties of the chat orchestrator.                                    *)
(***************************************************************************)
GenerationOps == {"rails.generate_async", "ollama.generate", "ollama.chat"}

GenerationCount(trace) == Cardinality({i \in DOMAIN trace : trace[i] \in GenerationOps})

InputBlocked(call) == \E i \in DOMAIN call.trace : call.trace[i] = "input_check:blocked"

Contents(s) == IF s \in DOMAIN chat_history THEN {chat_history[s][i].content : i \in DOMAIN chat_history[s]} ELSE {}

\* C1: a message whose input check yields blocked=true gets the refusal
\* response of its mode, blocked=true, and no generation collaborator
\* (rails.generate_async, ollama_client.generate, ollama_client.chat) is
\* invoked at any point of that call, in the guardrails mode and in the
\* simplified mode.
C1_BlockedInputNeverGenerates ==
    \A c \in CallIds :
        InputBlocked(calls[c]) =>
            /\ GenerationCount(calls[c].trace) = 0
            /\ calls[c].pc = "returned"
            /\ calls[c].envelope[1].blocked
            /\ calls[c].envelope[1].response =
                  (IF calls[c].mode = "guardrails" THEN CannotProceedRefusal ELSE FlaggedRefusal)

\* a call blocked at the input check in the guardrails mode, after an earlier
\* call was blocked at the input check in the simplified mode
C1_Witness ==
    \E c \in CallIds :
        /\ InputBlocked(calls[c])
        /\ calls[c].mode = "guardrails"
        /\ calls[c].pc = "returned"
        /\ \E s \in Sessions : FlaggedRefusal \in Contents(s)

\* the records a call has appended to its session's history
RecordsOf(c) ==
    LET s == calls[c].session_id
    IN  IF s \in DOMAIN chat_history
        THEN {chat_history[s][i] : i \in {j \in DOMAIN chat_history[s] : chat_history[s][j].call = c}}
        ELSE {}

\* the call returned from the output check of lines 188-227
ReachedOutputCheck(call) ==
    /\ call.pc = "returned"
    /\ Len(call.trace) >= 2
    /\ call.trace[Len(call.trace)] \in {"output_check:blocked", "output_check:allowed"}
    /\ call.trace[Len(call.trace) - 1] = "ollama.chat"

OutputBlocked(call) == call.trace[Len(call.trace)] = "output_check:blocked"

\* C2: for a message that reaches the output check: when the output decision
\* is blocked, the response and the appended assistant record hold the generic
\* refusal, blocked=true, and the generated text is in neither the response nor
\* the records the call appended; when it is not blocked, the response is the
\* generated text that was checked, unchanged.
C2_OutputCheckDecidesDelivery ==
    \A c \in CallIds :
        ReachedOutputCheck(calls[c]) =>
            LET call == calls[c]
                env == call.envelope[1]
            IN  /\ env.blocked = OutputBlocked(call)
                /\ \A r \in RecordsOf(c) :
                       r.role = "assistant" => r.content = env.response /\ r.blocked = env.blocked
                /\ IF OutputBlocked(call)
                   THEN /\ env.response = SafetyRefusal
                        /\ call.assistant_response # env.response
                        /\ \A r \in RecordsOf(c) : r.content # call.assistant_response
                   ELSE env.response = call.assistant_response

\* an output-blocked call whose pair is in the history, after a call whose
\* generated text was delivered
C2_Witness ==
    \E c \in CallIds :
        /\ ReachedOutputCheck(calls[c])
        /\ OutputBlocked(calls[c])
        /\ calls[c].assistant_response = "gen: you fool"
        /\ Cardinality(RecordsOf(c)) = 2
        /\ "gen: fine" \in Contents(calls[c].session_id)


\* a session's history is a sequence of (user, assistant) pairs, each from one call
PairedHistory(h) ==
    /\ Len(h) % 2 = 0
    /\ \A i \in DOMAIN h :
          IF i % 2 = 1 THEN h[i].role = "user" /\ h[i + 1].role = "assistant" /\ h[i + 1].call = h[i].call
          ELSE TRUE

\* C3: after N process_message calls on one session id have returned with no
\* clear in between, the session history has exactly 2N records, a user record
\* followed by an assistant record per call, on every terminal path (allowed,
\* blocked at the input check, blocked at the output check, rejected by input
\* validation, ended by an internal fault).
C3_HistoryHasTwoRecordsPerCall ==
    \A s \in Sessions :
        processed[s] > 0 =>
            /\ s \in DOMAIN chat_history
            /\ Len(chat_history[s]) = 2 * processed[s]
            /\ PairedHistory(chat_history[s])

PassedInputCheck(call) == \E i \in DOMAIN call.trace : call.trace[i] = "input_check:allowed"

\* positions of the trace where an operation of a set was invoked
Positions(trace, ops) == {i \in DOMAIN trace : trace[i] \in ops}

\* C4: for a message that passes validation and the input check, the
\* generation collaborator is invoked exactly once during the call, after the
\* input-phase detection and before the output-phase detection.
C4_ExactlyOneGeneration ==
    \A c \in CallIds :
        (calls[c].pc = "returned" /\ PassedInputCheck(calls[c])) =>
            LET trace == calls[c].trace
                gen == Positions(trace, GenerationOps)
            IN  /\ Cardinality(gen) = 1
                /\ \A g \in gen :
                      /\ \A i \in Positions(trace, {"input_check:allowed"}) : i < g
                      /\ \A o \in Positions(trace, {"output_check:blocked", "output_check:allowed"}) : g < o

\* the faults that process_message does not recover from locally
Unrecovered == {"message", "detection", "rails", "history"}

ValidationTexts == {"", "   ", LongText, ExactText}

NextValidation ==
    \/ Quiescent /\ CS_Initialize
    \/ \E c \in CallIds, m \in ValidationTexts, s \in Sessions :
          Quiescent /\ (\A d \in 1 .. c - 1 : calls[d].pc # "new") /\ PM_Begin(c, m, s, EmptyMap)
    \/ \E c \in CallIds, fail \in ChatFailChoices : PM_InputCheck(c, fail)
    \/ \E c \in CallIds, kind \in RailsOutcomes : PM_GenerateAsync(c, kind)
    \/ \E c \in CallIds, outcome \in GenOutcomes : PM_Generate(c, outcome)
    \/ \E c \in CallIds, fail \in ChatFailChoices : PM_OutputCheck1(c, fail)
    \/ \E c \in CallIds, outcome \in GenOutcomes : PM_Chat(c, outcome)
    \/ \E c \in CallIds, fail \in ChatFailChoices : PM_OutputCheck(c, fail)

SpecValidation == Init /\ [][NextValidation]_vars

Blank(text) == TextFeatures(text).blank

TooLong(text) == TextLength(text) > MaxLength

Tags(lines) == {lines[i].tag : i \in DOMAIN lines}

\* C11: process_message with an empty or whitespace-only text, or a text of
\* more than 10000 characters, returns blocked=true with the validation errors
\* as blocking reasons, and no detector and no generation collaborator is
\* invoked during the call; a text of exactly 10000 non-blank characters
\* passes validation.
C11_ValidationRejectsWithoutDetection ==
    \A c \in CallIds :
        calls[c].pc \notin {"new", "taken"} =>
            LET call == calls[c]
            IN  IF Blank(call.message) \/ TooLong(call.message)
                THEN /\ call.pc = "returned"
                     /\ call.trace = <<"validate_input:rejected">>
                     /\ call.envelope[1].blocked
                     /\ call.envelope[1].response = ValidationRefusal
                     /\ call.envelope[1].blocking_reasons # <<>>
                     /\ ("Empty text provided" \in Tags(call.envelope[1].blocking_reasons)) <=> Blank(call.message)
                     /\ ("Text too long" \in Tags(call.envelope[1].blocking_reasons)) <=> TooLong(call.message)
                     /\ Tags(call.envelope[1].blocking_reasons) \subseteq {"Empty text provided", "Text too long"}
                ELSE call.trace[1] = "validate_input:accepted"

\* a too long text is rejected after a text of exactly 10000 characters was
\* accepted and answered
C11_Witness ==
    \E c \in CallIds :
        /\ calls[c].pc = "returned"
        /\ calls[c].message = LongText
        /\ calls[c].envelope[1].blocked
        /\ \E s \in Sessions : ExactText \in Contents(s)


(***************************************************************************)
(* The context window: one session, in the guardrails mode, with enough    *)
(* turns for the history to outgrow the window.                            *)
(***************************************************************************)
MaxTurns == 7

TurnIds == 1 .. MaxTurns

\* the application after startup: lifespan has run ModelManager.initialize()
\* and ChatService.initialize()
InitStarted ==
    /\ detectors = Detectors
    /\ active_detectors = Detectors
    /\ detector_configs = DefaultConfigs
    /\ chat_history = EmptyMap
    /\ session_configs = EmptyMap
    /\ is_initialized = TRUE
    /\ gm_active_detectors = available_detectors
    /\ policy = <<>>
    /\ calls = [c \in TurnIds |-> NewCall]
    /\ processed = [s \in Sessions |-> 0]
    /\ arg = Idle
    /\ ret = <<>>

ContextTexts == {"hello", "you are awful"}

ContextOutcomes == {[kind |-> "text", text |-> t] : t \in GenTexts}

NextContext ==
    \/ \E c \in TurnIds, m \in ContextTexts :
          Quiescent /\ (\A d \in 1 .. c - 1 : calls[d].pc # "new") /\ PM_Begin(c, m, "s1", EmptyMap)
    \/ \E c \in TurnIds : PM_InputCheck(c, {})
    \/ \E c \in TurnIds : PM_GenerateAsync(c, "text")
    \/ \E c \in TurnIds, outcome \in ContextOutcomes : PM_Chat(c, outcome)
    \/ \E c \in TurnIds : PM_OutputCheck(c, {})

SpecContext == InitStarted /\ [][NextContext]_vars

\* the records of a history that are not marked blocked, in history order
RECURSIVE NonBlockedRecords(_)
NonBlockedRecords(h) ==
    IF h = <<>> THEN <<>>
    ELSE IF Head(h).blocked THEN NonBlockedRecords(Tail(h))
         ELSE <<Head(h)>> \o NonBlockedRecords(Tail(h))

AsMessages(h) == [i \in DOMAIN h |-> [role |-> h[i].role, content |-> h[i].content]]

\* the call is waiting for ollama_client.chat or for the output check: the
\* history is still the one the context was built from
ContextBuilt(call) == call.pc \in {"chat", "output_check"}

\* C12: the context passed to the generation collaborator for an allowed
\* message is the K=10 most recent non-blocked records of the session history,
\* in history order, followed by the current input; with at least 10
\* non-blocked records in the history exactly 10 of them are passed, however
\* many blocked records lie between them.
C12_ContextIsTenMostRecentNonBlocked ==
    \A c \in DOMAIN calls :
        ContextBuilt(calls[c]) =>
            calls[c].context =
                AsMessages(LastN(NonBlockedRecords(chat_history[calls[c].session_id]), ContextWindow))
                \o <<[role |-> "user", content |-> calls[c].message]>>


(***************************************************************************)
(* Sessions and their detector configuration.                              *)
(***************************************************************************)
\* ChatService.update_detector_config: the session's config is updated, then
\* GuardrailsManager.update_active_detectors(list(detector_config.keys()))
\* reloads the guardrails with the valid names; when the reload raises, the
\* exception is caught and the active list stays as it was
CS_UpdateDetectorConfig(session_id, detector_config, reloaded) ==
    /\ session_configs' =
          [s \in DOMAIN session_configs \cup {session_id} |->
              IF s # session_id THEN session_configs[s]
              ELSE IF s \in DOMAIN session_configs THEN Update(session_configs[s], detector_config)
              ELSE detector_config]
    /\ gm_active_detectors' =
          IF reloaded THEN SetOrder(DOMAIN detector_config \cap Detectors) ELSE gm_active_detectors
    /\ arg' = [op |-> "update_detector_config", session_id |-> session_id, detector_config |-> detector_config]
    /\ UNCHANGED <<mm_vars, chat_history, is_initialized, policy, calls, processed, ret>>

\* a text the toxicity classifier scores between the override and the default
SessionTexts == {"you are rather silly"}

ToxicityOverride == [n \in {"toxicity"} |-> [threshold |-> 10]]

OverrideChoices == {EmptyMap, ToxicityOverride}

SessionOutcomes == {[kind |-> "text", text |-> "gen: fine"]}

NextSessions ==
    \/ Quiescent /\ CS_Initialize
    \/ \E s \in Sessions : Quiescent /\ CS_ClearChatHistory(s)
    \/ \E s \in Sessions, dc \in OverrideChoices, reloaded \in BOOLEAN :
          Quiescent /\ CS_UpdateDetectorConfig(s, dc, reloaded)
    \/ \E c \in CallIds, m \in SessionTexts, s \in Sessions, dc \in OverrideChoices :
          Quiescent /\ (\A d \in 1 .. c - 1 : calls[d].pc # "new") /\ PM_Begin(c, m, s, dc)
    \/ \E c \in CallIds : PM_InputCheck(c, {})
    \/ \E c \in CallIds : PM_GenerateAsync(c, "text")
    \/ \E c \in CallIds, outcome \in SessionOutcomes : PM_Generate(c, outcome)
    \/ \E c \in CallIds : PM_OutputCheck1(c, {})
    \/ \E c \in CallIds, outcome \in SessionOutcomes : PM_Chat(c, outcome)
    \/ \E c \in CallIds : PM_OutputCheck(c, {})

SpecSessions == Init /\ [][NextSessions]_vars

\* the global detector configuration with a session's overrides merged over it
MergedConfigs(configs, overrides) ==
    [n \in DOMAIN configs |-> IF n \in DOMAIN overrides THEN Update(configs[n], overrides[n]) ELSE configs[n]]

\* the decision of the input check when it runs with the session's overrides
InputBlockedWithOverrides(call) ==
    LET overrides == IF call.session_id \in DOMAIN session_configs THEN session_configs[call.session_id] ELSE EmptyMap
        names == IF call.mode = "guardrails" THEN <<gm_active_detectors>> ELSE AllNames
    IN  run_detection(MergedConfigs(detector_configs, overrides), detectors, active_detectors,
                      call.message, names, EmptyMap, {}).value[1].blocked

\* C13: detection calls made while processing a message of session S run with
\* the global detector configuration overridden by S's session overrides, which
\* stay in force until clear_chat_history(S): a message that went on past the
\* input check is one that the check with the overrides does not block.
C13_SessionOverridesApplied ==
    \A c \in CallIds :
        (InFlight(calls[c]) /\ PassedInputCheck(calls[c])) => ~InputBlockedWithOverrides(calls[c])


\* what a session can observe: its history, its session configuration and
\* the detectors and thresholds its messages are checked with
SessionView(B) ==
    << IF B \in DOMAIN chat_history THEN <<chat_history[B]>> ELSE <<>>,
       IF B \in DOMAIN session_configs THEN <<session_configs[B]>> ELSE <<>>,
       gm_active_detectors,
       detector_configs >>

\* the step is an operation on a session other than B
OperationOnOther(B) ==
    \/ /\ arg' # arg
       /\ arg'.op = "update_detector_config"
       /\ arg'.session_id # B
    \/ \E c \in CallIds :
          /\ calls'[c] # calls[c]
          /\ calls'[c].pc \notin {"new", "taken"}
          /\ calls'[c].session_id # B
    \/ \E A \in Sessions \ {B} :
          /\ A \in DOMAIN chat_history
          /\ A \notin DOMAIN chat_history'

\* C14: sessions are independent: no operation on session A (process_message
\* with a detector_config, update_detector_config, clear_chat_history) changes
\* session B's history, B's session configuration or the set of detectors
\* consulted for B's messages.
C14_SessionsIndependent ==
    [][\A B \in Sessions : OperationOnOther(B) => SessionView(B)' = SessionView(B)]_vars


(***************************************************************************)
(* Concurrent calls of process_message.  Each await of the coroutine is a  *)
(* point where the event loop may run another call; calls are received in  *)
(* the order of their ids.                                                 *)
(***************************************************************************)
ConcTexts == {"hello", "you are awful"}

NextConc ==
    \/ Quiescent /\ CS_Initialize
    \/ \E c \in CallIds, m \in ConcTexts, s \in Sessions :
          (\A d \in 1 .. c - 1 : calls[d].pc # "new") /\ PM_Begin(c, m, s, EmptyMap)
    \/ \E c \in CallIds : PM_InputCheck(c, {})
    \/ \E c \in CallIds : PM_GenerateAsync(c, "text")
    \/ \E c \in CallIds, outcome \in ContextOutcomes : PM_Generate(c, outcome)
    \/ \E c \in CallIds : PM_OutputCheck1(c, {})
    \/ \E c \in CallIds, outcome \in ContextOutcomes : PM_Chat(c, outcome)
    \/ \E c \in CallIds : PM_OutputCheck(c, {})

SpecConc == Init /\ [][NextConc]_vars

\* the calls whose pairs are in the history, in the order of the history
CallOrder(history) == [i \in DOMAIN history |-> history[i].call]

\* C15: concurrent process_message calls on the same session are serialized:
\* under every interleaving the pairs appear in the session history in the
\* order in which the calls were received.
C15_HistoryInOrderOfReceipt ==
    \A s \in DOMAIN chat_history :
        \A i \in 1 .. Len(chat_history[s]) - 1 :
            CallOrder(chat_history[s])[i] <= CallOrder(chat_history[s])[i + 1]


(***************************************************************************)
(* Failures of the generation collaborator                                 *)
(***************************************************************************)
\* a generation call of this message failed: rails.generate_async raised, or
\* ollama_client.generate / ollama_client.chat raised or gave no text
GenerationFailed(call) == call.faults \cap {"generation", "rails"} # {}

\* C16: when the generation collaborator fails for a message that passed the
\* input check, the failure alone never sets blocked=true, in either mode: the
\* envelope is blocked only if an output check blocked.
C16_GenerationFailureNeverBlocksAlone ==
    \A c \in CallIds :
        (calls[c].pc = "returned" /\ PassedInputCheck(calls[c]) /\ GenerationFailed(calls[c])) =>
            (calls[c].envelope[1].blocked => OutputBlocked(calls[c]))


\* the envelope carries str(e) of a caught exception: in its 'error' field
\* (line 245) or inside a "Processing error: ..." blocking reason
CarriesExceptionText(env) ==
    \/ env.error # ""
    \/ \E i \in DOMAIN env.blocking_reasons :
          env.blocking_reasons[i].tag = "Processing error" /\ env.blocking_reasons[i].detail # ""

\* C17: no envelope returned to a caller contains internal exception text:
\* neither blocking_reasons nor any other field carries the text of an
\* exception.
C17_NoExceptionTextInEnvelope ==
    \A c \in CallIds :
        calls[c].pc = "returned" => ~CarriesExceptionText(calls[c].envelope[1])


(***************************************************************************)
(* Warnings of the output phase                                            *)
(***************************************************************************)
\* the warnings the Decision Engine derives from the outcomes of a detection
DecisionWarnings(output_result) == analyze_results(output_result.results).warnings

\* the message went through the last output check and its envelope was built
DeliveredThroughOutputCheck(call) == call.pc = "returned" /\ call.envelope[1].output_analysis # <<>>

\* C18: when a detector fails or meets its warn condition during the output
\* phase of a delivered message, the Decision Engine's warning is in the
\* 'warnings' of the returned envelope.
C18_OutputWarningsInEnvelope ==
    \A c \in CallIds :
        DeliveredThroughOutputCheck(calls[c]) =>
            LET env == calls[c].envelope[1]
                expected == DecisionWarnings(env.output_analysis[1])
            IN  \A i \in DOMAIN expected : \E j \in DOMAIN env.warnings : env.warnings[j] = expected[i]


(***************************************************************************)
(* The warn conditions of the decision engine, at and around each kind's   *)
(* threshold                                                               *)
(***************************************************************************)
MaxEntries == 2

\* each warn threshold and the value just above it
WarnLevels == {30, 31, 40, 41, 50, 51, 70, 71}

AddEntry ==
    /\ ret = <<>>
    /\ Len(arg) < MaxEntries
    /\ \E n \in Detectors \ Names(arg) : \E o \in OutcomesAt(n, WarnLevels) : arg' = Append(arg, Entry(n, o))
    /\ UNCHANGED <<mm_vars, chat_vars, ret>>

NextWarn == AddEntry \/ Analyze

SpecWarn == InitAnalyze /\ [][NextWarn]_vars

\* C19: for each non-error outcome that does not trigger its kind's block
\* condition, analyze_results adds a warning if and only if the kind's warn
\* condition holds (toxicity: confidence > 0.5; prompt_injection: confidence >
\* 0.3; topic: max_similarity > 0.5; spam: confidence > 0.4; fact_check:
\* needs_fact_check and confidence > 0.7; pii: never); an outcome that triggers
\* its block condition adds no warning, so no outcome contributes both a
\* blocking reason and a warning.
C19_WarnsIffWarnCondition ==
    ret # <<>> =>
        \A i \in DOMAIN arg :
            arg[i].outcome.error = "" =>
                LET n == arg[i].name
                    r == arg[i].outcome.result[1]
                    warned == LinesOf(ret[1].warnings, n) # {}
                    reasoned == LinesOf(ret[1].blocking_reasons, n) # {}
                    expected ==
                        \/ n = "toxicity" /\ r.confidence > 50
                        \/ n = "prompt_injection" /\ r.confidence > 30
                        \/ n = "topic" /\ r.confidence > 50
                        \/ n = "spam" /\ r.confidence > 40
                        \/ n = "fact_check" /\ r.flag /\ r.confidence > 70
                IN  /\ SatisfiesBlockCondition(arg[i]) => ~warned
                    /\ ~SatisfiesBlockCondition(arg[i]) => (warned <=> expected)
                    /\ ~(warned /\ reasoned)

\* a spam outcome just above its threshold warned, and nothing was blocked
C19_Witness ==
    /\ ret # <<>>
    /\ \E i \in DOMAIN arg :
          /\ arg[i].name = "spam"
          /\ arg[i].outcome.error = ""
          /\ ~arg[i].outcome.result[1].flag
          /\ arg[i].outcome.result[1].confidence = 41
          /\ LinesOf(ret[1].warnings, "spam") # {}
    /\ ~ret[1].blocked


(***************************************************************************)
(* The decision engine applied to maps that also hold outcomes with a      *)
(* missing result or missing result fields                                 *)
(***************************************************************************)
\* {"result": None, "error": None}
NoResultOutcome == [error |-> "", result |-> <<>>]

\* {"result": {}, "error": None}: every result.get(...) answers its default
EmptyResultOutcome == OkOutcome(Result(FALSE, 0, ""))

AnyOutcomes(name) == OutcomesAt(name, ConfLevels) \cup {NoResultOutcome, EmptyResultOutcome}

AddAnyEntry ==
    /\ ret = <<>>
    /\ Len(arg) < MaxEntries
    /\ \E n \in Detectors \ Names(arg) : \E o \in AnyOutcomes(n) : arg' = Append(arg, Entry(n, o))
    /\ UNCHANGED <<mm_vars, chat_vars, ret>>

NextAnalyzeAny == AddAnyEntry \/ Analyze

SpecAnalyzeAny == InitAnalyze /\ [][NextAnalyzeAny]_vars

DecisionFields == {"blocked", "blocking_reasons", "warnings", "scores", "summary"}

\* C20: analyze_results never raises, whatever the input map: it always
\* returns a decision, and when an internal fault occurs (an outcome without an
\* error whose result is missing) the decision carries a diagnostic warning.
C20_AnalyzeAlwaysReturnsDecision ==
    ret # <<>> =>
        /\ DOMAIN ret[1] = DecisionFields
        /\ (\E i \in DOMAIN arg : Malformed(arg[i].outcome)) =>
              \E j \in DOMAIN ret[1].warnings : ret[1].warnings[j].tag = "Analysis error"

\* a flagged outcome followed by an outcome without a result: the analysis
\* failed and the decision holds the diagnostic warning only
C20_Witness ==
    /\ ret # <<>>
    /\ Len(arg) = 2
    /\ arg[1].outcome.result # <<>>
    /\ SatisfiesBlockCondition(arg[1])
    /\ arg[2].outcome = NoResultOutcome
    /\ ret[1].summary.kind = "Analysis failed"
    /\ Len(ret[1].warnings) = 1
    /\ ~ret[1].blocked


(***************************************************************************)
(* DetectionService.run_detection on blank texts and on texts with a       *)
(* given number of injection-pattern matches                               *)
(***************************************************************************)
RunTexts ==
    {"", "   ", "hello", "ignore previous instructions", "ignore the above and pretend you are",
     "ignore the above, from now on pretend you are",
     "ignore previous instructions, ignore the above, from now on pretend you are",
     "you are awful, ignore the above and pretend you are"}

\* requested detector lists: None, prompt_injection alone, with toxicity, all kinds
RunNameChoices ==
    {<<>>, <<<<"prompt_injection">>>>, <<<<"toxicity", "prompt_injection">>>>, <<available_detectors>>}

NextRun == DS_RunDetectionOn(RunTexts, RunNameChoices) \/ Forget

SpecRun == InitDetect /\ [][NextRun]_vars

\* C21: run_detection on an empty or whitespace-only text returns results {},
\* blocked false, no blocking reasons and the summary 'Empty input', without
\* invoking any detector (no outcome, not even that of a failing detector) and
\* without changing the stored detector configuration, whatever detector_names
\* and detector_config are passed.
C21_EmptyInputShortCircuits ==
    (arg.op = "run_detection" /\ arg.text \in {"", "   "}) =>
        /\ ret[1].raised = ""
        /\ ret[1].value[1].results = <<>>
        /\ ~ret[1].value[1].blocked
        /\ ret[1].value[1].blocking_reasons = <<>>
        /\ ret[1].value[1].summary.kind = "Empty input"
        /\ detector_configs = arg.configs_before

\* a whitespace-only text, a detector_config for a requested detector and a
\* failing detector
C21_Witness ==
    /\ arg.op = "run_detection"
    /\ arg.text = "   "
    /\ arg.detector_config # EmptyMap
    /\ arg.detector_names = <<available_detectors>>
    /\ arg.fail # {}
    /\ ret[1].value[1].summary.kind = "Empty input"


\* the call consults prompt_injection, loaded and healthy, with threshold 0.5
InjectionAtDefaultThreshold ==
    /\ arg.op = "run_detection"
    /\ "prompt_injection" \in Requested
    /\ "prompt_injection" \in detectors \ arg.fail
    /\ arg.configs_before["prompt_injection"] = [threshold |-> InjectionDefaultThreshold]
    /\ "prompt_injection" \notin DOMAIN arg.detector_config

\* C22: with only prompt_injection consulted and threshold 0.5, an input that
\* matches exactly one injection pattern once (confidence 0.3) yields
\* blocked=false, and the decision for that input carries a prompt-injection
\* warning.
C22_SingleMatchWarns ==
    (InjectionAtDefaultThreshold /\ Requested = {"prompt_injection"} /\ TextFeatures(arg.text).matches = 1) =>
        /\ ret[1].raised = ""
        /\ OutcomeOf(ret[1].value[1].results, "prompt_injection").result[1].confidence = 30
        /\ ~ret[1].value[1].blocked
        /\ LinesOf(DecisionWarnings(ret[1].value[1]), "prompt_injection") # {}

MaxMatches == 4

\* C23: with threshold 0.5, every input with two or more injection-pattern
\* matches gets a prompt_injection confidence of at least 0.6 (0.3 per match,
\* capped at 1.0), is_injection=true, and a decision with blocked=true.
C23_TwoMatchesBlock ==
    /\ \A m \in 2 .. MaxMatches :
          /\ InjectionConfidence(m) >= 60
          /\ InjectionConfidence(m) <= 100
          /\ (30 * m <= 100 => InjectionConfidence(m) = 30 * m)
          /\ InjectionConfidence(m) > InjectionDefaultThreshold
    /\ (InjectionAtDefaultThreshold /\ TextFeatures(arg.text).matches >= 2) =>
          /\ ret[1].raised = ""
          /\ OutcomeOf(ret[1].value[1].results, "prompt_injection").result[1].confidence >= 60
          /\ OutcomeOf(ret[1].value[1].results, "prompt_injection").result[1].flag
          /\ ret[1].value[1].blocked
          /\ LinesOf(ret[1].value[1].blocking_reasons, "prompt_injection") # {}

\* four matches: the confidence is capped at 1.0 and the input is blocked
C23_Witness ==
    /\ InjectionAtDefaultThreshold
    /\ TextFeatures(arg.text).matches = 4
    /\ OutcomeOf(ret[1].value[1].results, "prompt_injection").result[1].confidence = 100
    /\ ret[1].value[1].blocked


(***************************************************************************)
(* DetectionService.batch_detection                                        *)
(***************************************************************************)
\* lines 236-248: the entry of text number i (from 0) for the outcome of its task
BatchEntry(i, r) ==
    IF r.raised # ""
    THEN [text_index |-> i, error |-> r.raised, results |-> <<>>, blocked |-> FALSE,
          blocking_reasons |-> <<Line("Processing error", "", r.raised, 0)>>]
    ELSE Update(r.value[1], [text_index |-> i])

\* one run_detection task per text, gathered with return_exceptions=True; no
\* detector_config is passed, so the tasks leave the stored configuration alone
batch_detection(configs, loaded, active, texts, detector_names, fail) ==
    [i \in 1 .. Len(texts) |->
        BatchEntry(i - 1, run_detection(configs, loaded, active, texts[i], detector_names, EmptyMap, fail))]

MaxBatch == 3

\* NoneText: an element that is not a string, on which run_detection raises
BatchTexts == {"hello", "you are awful", NoneText}

Batches == UNION {[1 .. n -> BatchTexts] : n \in 0 .. MaxBatch}

BatchNameChoices == {<<>>, <<<<"toxicity", "fact_check">>>>}

DS_BatchDetection ==
    \E texts \in Batches, names \in BatchNameChoices, fail \in ChatFailChoices :
        /\ arg = Idle
        /\ arg' = [op |-> "batch_detection", texts |-> texts, detector_names |-> names, fail |-> fail,
                   configs_before |-> detector_configs]
        /\ ret' = <<[raised |-> "",
                     value |-> <<batch_detection(detector_configs, detectors, active_detectors, texts, names, fail)>>]>>
        /\ UNCHANGED <<mm_vars, chat_vars>>

NextBatch == DS_BatchDetection \/ Forget

SpecBatch == InitDetect /\ [][NextBatch]_vars

\* what run_detection returns for text number i of the batch, alone
Alone(i) ==
    run_detection(arg.configs_before, detectors, active_detectors, arg.texts[i], arg.detector_names,
                  EmptyMap, arg.fail)

\* C24: batch_detection over n texts returns exactly n entries in input order
\* (entry i has text_index i); an entry whose processing raised has
\* blocked=true and a blocking reason prefixed 'Processing error:', and every
\* other entry equals what run_detection returns for its text alone.
C24_BatchEntries ==
    arg.op = "batch_detection" =>
        LET out == ret[1].value[1]
        IN  /\ ret[1].raised = ""
            /\ Len(out) = Len(arg.texts)
            /\ \A i \in DOMAIN out :
                  /\ out[i].text_index = i - 1
                  /\ IF Alone(i).raised # ""
                     THEN /\ out[i].blocked
                          /\ out[i].blocking_reasons # <<>>
                          /\ out[i].blocking_reasons[1].tag = "Processing error"
                     ELSE \A f \in DOMAIN Alone(i).value[1] : out[i][f] = Alone(i).value[1][f]


(***************************************************************************)
(* The policy generator: ConfigLoader and GuardrailsManager.  A            *)
(* configuration is [input_flows, output_flows, actions]; the config store *)
(* is the set of files present in config_dir ("base" for base_config.yml,  *)
(* a detector name for <name>_config.yml), each holding what               *)
(* get_default_base_config / get_default_detector_config describe.         *)
(***************************************************************************)
\* ConfigLoader.get_default_detector_config: {} for a name it does not know
DetectorFragment(name) ==
    [input_flows |-> CASE name = "toxicity" -> <<"check toxicity">>
                       [] name = "pii" -> <<"check pii">>
                       [] name = "prompt_injection" -> <<"check prompt injection">>
                       [] name = "topic" -> <<"check topics">>
                       [] name = "spam" -> <<"check spam">>
                       [] OTHER -> <<>>,
     output_flows |-> CASE name = "toxicity" -> <<"check output toxicity">>
                        [] name = "fact_check" -> <<"check facts">>
                        [] OTHER -> <<>>,
     actions |-> CASE name = "toxicity" -> <<"check_toxicity">>
                   [] name = "pii" -> <<"check_pii">>
                   [] name = "prompt_injection" -> <<"check_prompt_injection">>
                   [] name = "topic" -> <<"check_topics">>
                   [] name = "fact_check" -> <<"check_facts">>
                   [] name = "spam" -> <<"check_spam">>
                   [] OTHER -> <<>>]

\* ConfigLoader.get_default_base_config: rails with empty flows, two actions
BaseFragment ==
    [input_flows |-> <<>>, output_flows |-> <<>>, actions |-> <<"generate_with_ollama", "chat_with_ollama">>]

\* ConfigLoader.__init__
NewLoader(files) ==
    [files |-> files, base_config |-> <<>>, detector_configs |-> EmptyMap, active_detectors |-> {}]

\* load_base_config: a missing file gives the default, which is returned and
\* not stored; a file is parsed and stored
load_base_config(loader) ==
    IF "base" \in loader.files THEN [loader EXCEPT !.base_config = <<BaseFragment>>] ELSE loader

\* lines 65-67: load_detector_config for the names not yet loaded; a missing
\* file gives the default, which is not stored
RECURSIVE LoadDetectorConfigs(_, _)
LoadDetectorConfigs(loader, names) ==
    IF names = <<>> THEN loader
    ELSE LET n == Head(names)
             next == IF n \notin DOMAIN loader.detector_configs /\ n \in loader.files
                     THEN [loader EXCEPT !.detector_configs = Update(@, [x \in {n} |-> DetectorFragment(n)])]
                     ELSE loader
         IN  LoadDetectorConfigs(next, Tail(names))

\* merge_detector_configs: the lists of the configuration are extended with
\* the fragments of the active detectors that are stored
RECURSIVE merge_detector_configs(_, _, _)
merge_detector_configs(config, stored, names) ==
    IF names = <<>> THEN config
    ELSE LET n == Head(names)
             merged == IF n \in DOMAIN stored
                       THEN [input_flows |-> config.input_flows \o stored[n].input_flows,
                             output_flows |-> config.output_flows \o stored[n].output_flows,
                             actions |-> config.actions \o stored[n].actions]
                       ELSE config
         IN  merge_detector_configs(merged, stored, Tail(names))

\* line 62: config = self.base_config.copy() is a shallow copy: the flow and
\* action lists that merge_detector_configs extends are those of base_config
BaseAfterMerge(base, merged) == merged

\* ConfigLoader.generate_dynamic_config
generate_dynamic_config(loader, active) ==
    LET based == IF loader.base_config = <<>> THEN load_base_config(loader) ELSE loader
    IN  IF based.base_config = <<>>
        THEN [raised |-> "Failed to generate dynamic config: 'NoneType' object has no attribute 'copy'",
              value |-> <<>>, loader |-> based]
        ELSE LET loaded == LoadDetectorConfigs(based, active)
                 merged == merge_detector_configs(loaded.base_config[1], loaded.detector_configs, active)
             IN  [raised |-> "", value |-> <<merged>>,
                  loader |-> [loaded EXCEPT !.base_config = <<BaseAfterMerge(loaded.base_config[1], merged)>>,
                                            !.active_detectors = Range(active)]]

\* write_input_flows / write_output_flows: the flows written for a detector list
write_input_flows(active) ==
    <<"check input">>
    \o FilterSeq(<<"toxicity", "pii", "prompt_injection", "topic", "spam">>, Range(active))

write_output_flows(active) ==
    <<"check output">> \o FilterSeq(<<"toxicity", "fact_check">>, Range(active))


(***************************************************************************)
(* GuardrailsManager.  policy is <<[loader, rails, rails_load, active_load,*)
(* loads]>>: rails is <<>> for None, else the files LLMRails was built     *)
(* from; loads numbers the load_configuration calls, rails_load and        *)
(* active_load name the call that assigned self.rails and                  *)
(* self.active_detectors (0: the constructor or cleanup).                  *)
(***************************************************************************)
MaxLoads == 3

\* the config stores: no file, the base file only, the base file and the
\* files of two detectors
FileChoices == {{}, {"base"}, {"base", "toxicity", "pii"}}

\* GuardrailsManager.__init__
NewPolicy(files) ==
    [loader |-> NewLoader(files), rails |-> <<>>, rails_load |-> 0, active_load |-> 0, loads |-> 0]

\* update_active_detectors line 305 without the membership test
ValidDetectorsUnfiltered(detectors_arg) == detectors_arg

\* update_active_detectors line 305: the names the model manager knows
ValidDetectors(detectors_arg) == FilterSeq(detectors_arg, Detectors)

\* lines 52-74: the files LLMRails is built from
RailsFiles(config, active) ==
    [config |-> config, input_flows |-> write_input_flows(active), output_flows |-> write_output_flows(active)]

\* a load that raises with self.active_detectors assigned before LLMRails is built
LoadFailedActiveFirst(pol, gm_active, active, k) ==
    [policy |-> [pol EXCEPT !.active_load = k], active_detectors |-> active]

\* lines 80-84: a load that raises has assigned neither field
LoadFailed(pol, gm_active, active, k) ==
    [policy |-> pol, active_detectors |-> gm_active]

\* lines 77-78: both fields are assigned, with no await between them
LoadPublished(pol, config, active, k) ==
    [policy |-> [pol EXCEPT !.rails = <<RailsFiles(config, active)>>, !.rails_load = k, !.active_load = k],
     active_detectors |-> active]

PolicyOps == {"initialize", "update_active_detectors"}

InitPolicy ==
    /\ detectors = Detectors
    /\ active_detectors = Detectors
    /\ detector_configs = DefaultConfigs
    /\ chat_history = EmptyMap
    /\ session_configs = EmptyMap
    /\ is_initialized = FALSE
    /\ gm_active_detectors = <<>>
    /\ policy \in {<<NewPolicy(files)>> : files \in FileChoices}
    /\ calls = EmptyMap
    /\ processed = EmptyMap
    /\ arg = Idle
    /\ ret = <<>>

\* load_configuration up to its first await (line 67): the configuration is
\* generated, or the call raises
GM_LoadConfiguration(op, detectors_arg, active) ==
    /\ arg = Idle
    /\ policy[1].loads < MaxLoads
    /\ \E g \in {generate_dynamic_config(policy[1].loader, active)} :
        LET k == policy[1].loads + 1
            before == [policy |-> policy[1], active_detectors |-> gm_active_detectors]
            generated == [policy[1] EXCEPT !.loader = g.loader, !.loads = k]
        IN  /\ policy' = <<generated>>
            /\ arg' = [op |-> op, detectors |-> detectors_arg, active |-> active, before |-> before,
                       config |-> g.value, pc |-> IF g.raised = "" THEN "write_input_flows" ELSE "raised"]
            /\ ret' = IF g.raised = "" THEN <<>>
                      ELSE <<[raised |-> "Failed to load configuration: " \o g.raised, value |-> <<>>]>>
    /\ UNCHANGED <<mm_vars, chat_history, session_configs, is_initialized, gm_active_detectors, calls, processed>>

\* GuardrailsManager.initialize, called without a detector list
GM_Initialize == GM_LoadConfiguration("initialize", available_detectors, available_detectors)

DetectorLists ==
    {<<>>, <<"toxicity">>, <<"toxicity", "pii">>, <<"sentiment", "toxicity">>, <<"pii", "sentiment">>}

\* GuardrailsManager.update_active_detectors
GM_UpdateActiveDetectors ==
    \E detectors_arg \in DetectorLists :
        GM_LoadConfiguration("update_active_detectors", detectors_arg, ValidDetectors(detectors_arg))

LoadFaults == {"none", "LLMRails"}

\* load_configuration from line 67 to its return: the flow files are written,
\* RailsConfig and LLMRails are built (either may raise), and the two fields
\* are assigned
GM_LoadFinish ==
    \E fault \in LoadFaults :
        /\ arg.op \in PolicyOps
        /\ arg.pc = "write_input_flows"
        /\ \E r \in {IF fault = "none"
                     THEN LoadPublished(policy[1], arg.config[1], arg.active, policy[1].loads)
                     ELSE LoadFailed(policy[1], gm_active_detectors, arg.active, policy[1].loads)} :
            /\ policy' = <<r.policy>>
            /\ gm_active_detectors' = r.active_detectors
        /\ is_initialized' = IF fault = "none" /\ arg.op = "initialize" THEN TRUE ELSE is_initialized
        /\ arg' = [arg EXCEPT !.pc = IF fault = "none" THEN "returned" ELSE "raised"]
        /\ ret' = <<[raised |-> IF fault = "none" THEN ""
                                ELSE "Failed to load configuration: " \o fault,
                     value |-> <<>>]>>
        /\ UNCHANGED <<mm_vars, chat_history, session_configs, calls, processed>>

\* GuardrailsManager.cleanup
GM_Cleanup ==
    /\ arg = Idle
    /\ policy' = <<[policy[1] EXCEPT !.rails = <<>>, !.rails_load = 0, !.active_load = 0]>>
    /\ gm_active_detectors' = <<>>
    /\ is_initialized' = FALSE
    /\ arg' = [op |-> "cleanup"]
    /\ ret' = <<[raised |-> "", value |-> <<>>]>>
    /\ UNCHANGED <<mm_vars, chat_history, session_configs, calls, processed>>

\* the caller takes what a returned call gave
GM_Return ==
    /\ ret # <<>>
    /\ Forget

NextPolicy ==
    \/ GM_Initialize
    \/ GM_UpdateActiveDetectors
    \/ GM_LoadFinish
    \/ GM_Cleanup
    \/ GM_Return

SpecPolicy == InitPolicy /\ [][NextPolicy]_vars


\* C25: the configuration generate_dynamic_config returns for a detector list
\* is the one a loader that generated nothing before returns for it: earlier
\* generations leave nothing behind in the input flows, output flows and actions.
C25_GenerationIndependentOfHistory ==
    (arg.op \in PolicyOps /\ arg.config # <<>>) =>
        arg.config = generate_dynamic_config(NewLoader(policy[1].loader.files), arg.active).value

KnownNames(detectors_arg) == Range(detectors_arg) \cap Detectors

\* C26: update_active_detectors with unknown names fails only when the call
\* with the known names alone fails, and after a successful call the active
\* detectors of the manager and of the config loader are exactly the known
\* names of the list given.
C26_UnknownNamesDropped ==
    arg.op = "update_active_detectors" =>
        /\ (arg.pc = "raised" /\ arg.config = <<>>) =>
               generate_dynamic_config(arg.before.policy.loader, SetOrder(KnownNames(arg.detectors))).raised # ""
        /\ arg.pc = "returned" =>
               /\ Range(gm_active_detectors) = KnownNames(arg.detectors)
               /\ Len(gm_active_detectors) = Cardinality(KnownNames(arg.detectors))
               /\ policy[1].loader.active_detectors = KnownNames(arg.detectors)
               /\ \A i \in DOMAIN gm_active_detectors : gm_active_detectors[i] \in Detectors

C26_Witness ==
    /\ arg.op = "update_active_detectors"
    /\ arg.pc = "returned"
    /\ arg.detectors = <<"sentiment", "toxicity">>
    /\ gm_active_detectors = <<"toxicity">>
    /\ policy[1].loader.active_detectors = {"toxicity"}

\* C27: when a load of the policy raises, the rails object, the manager's
\* active detectors, the loader's active detectors and the loader's base
\* configuration are what they were before the call.
C27_FailedLoadKeepsPolicy ==
    (arg.op \in PolicyOps /\ arg.pc = "raised") =>
        /\ policy[1].rails = arg.before.policy.rails
        /\ gm_active_detectors = arg.before.active_detectors
        /\ policy[1].loader.active_detectors = arg.before.policy.loader.active_detectors
        /\ policy[1].loader.base_config = arg.before.policy.loader.base_config

\* C28: in every state, the await points of load_configuration included, the
\* rails object and the active detector list of the manager were assigned by
\* the same load_configuration call (or both by the constructor or cleanup),
\* and the rails object is the one built for that list.
C28_RailsAndActiveFromSameLoad ==
    /\ policy[1].rails_load = policy[1].active_load
    /\ policy[1].rails = <<>> => gm_active_detectors = <<>>
    /\ policy[1].rails # <<>> =>
           /\ policy[1].rails[1].input_flows = write_input_flows(gm_active_detectors)
           /\ policy[1].rails[1].output_flows = write_output_flows(gm_active_detectors)

C28_Witness ==
    /\ arg.op = "update_active_detectors"
    /\ arg.pc = "write_input_flows"
    /\ policy[1].rails # <<>>
    /\ Range(arg.active) # Range(gm_active_detectors)
    /\ policy[1].loader.active_detectors # Range(gm_active_detectors)


(***************************************************************************)
(* The operations on a session's history: process_message calls in flight  *)
(* together with clear_chat_history, update_detector_config, the reading   *)
(* operations and cleanup, which run whenever a call is at an await.       *)
(***************************************************************************)
HistoryOf(session_id) ==
    IF session_id \in DOMAIN chat_history THEN chat_history[session_id] ELSE <<>>

\* ChatService.get_chat_history: the last limit records, or all of them
CS_GetChatHistory(session_id, limit) ==
    /\ arg' = [op |-> "get_chat_history", session_id |-> session_id, limit |-> limit]
    /\ ret' = <<[raised |-> "", value |-> LastN(HistoryOf(session_id), limit)]>>
    /\ UNCHANGED <<mm_vars, chat_vars>>

CountWhere(history, Keep(_)) == Cardinality({i \in DOMAIN history : Keep(history[i])})

IsUser(record) == record.role = "user"

IsAssistant(record) == record.role = "assistant"

IsBlocked(record) == record.blocked

\* ChatService.get_session_stats
CS_GetSessionStats(session_id) ==
    /\ arg' = [op |-> "get_session_stats", session_id |-> session_id]
    /\ ret' = IF session_id \notin DOMAIN chat_history
              THEN <<[raised |-> "", error |-> "Session not found"]>>
              ELSE LET history == chat_history[session_id]
                   IN  <<[raised |-> "", error |-> "",
                          total_messages |-> Len(history),
                          user_messages |-> CountWhere(history, IsUser),
                          assistant_messages |-> CountWhere(history, IsAssistant),
                          blocked_messages |-> CountWhere(history, IsBlocked)]>>
    /\ UNCHANGED <<mm_vars, chat_vars>>

ExportFormats == {"json", "text"}

\* ChatService.export_chat_history
CS_ExportChatHistory(session_id, format) ==
    /\ arg' = [op |-> "export_chat_history", session_id |-> session_id, format |-> format]
    /\ ret' = IF session_id \notin DOMAIN chat_history
              THEN <<[raised |-> "", error |-> "Session not found"]>>
              ELSE IF format = "json"
              THEN <<[raised |-> "", error |-> "", message_count |-> Len(chat_history[session_id]),
                      messages |-> chat_history[session_id]]>>
              ELSE IF format = "text"
              THEN <<[raised |-> "", error |-> "",
                      content |-> [i \in DOMAIN chat_history[session_id] |->
                                      <<chat_history[session_id][i].role, chat_history[session_id][i].content,
                                        chat_history[session_id][i].blocked>>]]>>
              ELSE <<[raised |-> "", error |-> "Unsupported format: " \o format]>>
    /\ UNCHANGED <<mm_vars, chat_vars>>

\* ChatService.cleanup
CS_Cleanup ==
    /\ chat_history # EmptyMap
    /\ chat_history' = EmptyMap
    /\ session_configs' = EmptyMap
    /\ is_initialized' = FALSE
    /\ gm_active_detectors' = <<>>
    /\ processed' = [s \in DOMAIN processed |-> 0]
    /\ arg' = [op |-> "cleanup"]
    /\ ret' = <<>>
    /\ UNCHANGED <<mm_vars, policy, calls>>

HistoryTexts == {"hello"}

HistoryLimits == {1, 50}

\* the session the reading operations and update_detector_config are applied to
ReadSessions == {"s1"}

\* the application after startup, with guardrails initialised or not
InitHistory ==
    /\ detectors = Detectors
    /\ active_detectors = Detectors
    /\ detector_configs = DefaultConfigs
    /\ chat_history = EmptyMap
    /\ session_configs = EmptyMap
    /\ is_initialized \in BOOLEAN
    /\ gm_active_detectors = IF is_initialized THEN available_detectors ELSE <<>>
    /\ policy = <<>>
    /\ calls = [c \in CallIds |-> NewCall]
    /\ processed = [s \in Sessions |-> 0]
    /\ arg = Idle
    /\ ret = <<>>

\* an operation that returned hands its result to the caller before the
\* next step of the service runs; the update_detector_config followed here is
\* the one whose reload raises (SpecSessions follows both)
NextHistory ==
    \/ \E s \in Sessions : arg = Idle /\ CS_ClearChatHistory(s)
    \/ \E s \in ReadSessions : arg = Idle /\ CS_UpdateDetectorConfig(s, ToxicityOverride, FALSE)
    \/ \E s \in ReadSessions, limit \in HistoryLimits : arg = Idle /\ CS_GetChatHistory(s, limit)
    \/ \E s \in ReadSessions : arg = Idle /\ CS_GetSessionStats(s)
    \/ \E s \in ReadSessions, format \in ExportFormats : arg = Idle /\ CS_ExportChatHistory(s, format)
    \/ arg = Idle /\ CS_Cleanup
    \/ \E c \in CallIds, m \in HistoryTexts, s \in Sessions :
          arg = Idle /\ (\A d \in 1 .. c - 1 : calls[d].pc # "new") /\ PM_Begin(c, m, s, EmptyMap)
    \/ \E c \in CallIds : arg = Idle /\ PM_InputCheck(c, {})
    \/ \E c \in CallIds : arg = Idle /\ PM_GenerateAsync(c, "text")
    \/ \E c \in CallIds, outcome \in SessionOutcomes : arg = Idle /\ PM_Generate(c, outcome)
    \/ \E c \in CallIds : arg = Idle /\ PM_OutputCheck1(c, {})
    \/ \E c \in CallIds, outcome \in SessionOutcomes : arg = Idle /\ PM_Chat(c, outcome)
    \/ \E c \in CallIds : arg = Idle /\ PM_OutputCheck(c, {})
    \/ Forget

SpecHistory == InitHistory /\ [][NextHistory]_vars

IsPrefix(a, b) == Len(a) <= Len(b) /\ SubSeq(b, 1, Len(a)) = a

ReadingOps == {"get_chat_history", "get_session_stats", "export_chat_history", "update_detector_config"}

\* C29: every step leaves each session's history a prefix of what it is after
\* the step (records are appended at the end and those present stay as they
\* are) or removes the session, which only clear_chat_history and cleanup do;
\* get_chat_history, get_session_stats, export_chat_history and
\* update_detector_config leave every history as it is.
C29_HistoryAppendOnly ==
    [][/\ \A s \in Sessions :
            \/ s \in DOMAIN chat_history' /\ IsPrefix(HistoryOf(s), chat_history'[s])
            \/ s \notin DOMAIN chat_history' /\ s \notin DOMAIN chat_history
            \/ s \notin DOMAIN chat_history' /\ (CS_ClearChatHistory(s) \/ CS_Cleanup)
       /\ (arg' # arg /\ arg'.op \in ReadingOps) => chat_history' = chat_history
      ]_vars

C29_Witness ==
    /\ arg.op = "export_chat_history"
    /\ arg.format = "json"
    /\ arg.session_id \in DOMAIN chat_history
    /\ Len(chat_history[arg.session_id]) >= 2
    /\ ret[1].messages = chat_history[arg.session_id]
    /\ \E c \in CallIds : InFlight(calls[c])


\* the detectors run_detection starts a task for and keeps: requested and loaded
BatchOf == Requested \cap detectors

Blocking(results) == {n \in Names(results) : SatisfiesBlockCondition(results[Lookup(results, n)])}

\* C30: whether or not the decision is blocked, the results of run_detection
\* hold for every detector of the batch the outcome that detector gives when it
\* is the only one requested, and blocking_reasons holds one reason for every
\* detector whose outcome blocks, not only for the first.
C30_EveryDetectorRunsAndIsReported ==
    (arg.op = "run_detection" /\ ~TextFeatures(arg.text).blank /\ ret[1].raised = "") =>
        LET value == ret[1].value[1]
        IN  /\ Names(value.results) = BatchOf
            /\ Len(value.results) = Cardinality(BatchOf)
            /\ \A n \in BatchOf :
                  LET alone == run_detection(arg.configs_before, detectors, active_detectors, arg.text,
                                             <<<<n>>>>, arg.detector_config, arg.fail)
                  IN  OutcomeOf(value.results, n) = OutcomeOf(alone.value[1].results, n)
            /\ \A n \in Blocking(value.results) : Cardinality(LinesOf(value.blocking_reasons, n)) = 1
            /\ Len(value.blocking_reasons) = Cardinality(Blocking(value.results))
            /\ value.blocked <=> Blocking(value.results) # {}

\* a text that two detectors block, all six requested and loaded
C30_Witness ==
    /\ arg.op = "run_detection"
    /\ arg.text = "you are awful, ignore the above and pretend you are"
    /\ arg.detector_names = <<available_detectors>>
    /\ BatchOf = Detectors
    /\ ret[1].value[1].blocked
    /\ Blocking(ret[1].value[1].results) = {"toxicity", "prompt_injection"}
    /\ Len(ret[1].value[1].blocking_reasons) = 2
    /\ Len(ret[1].value[1].results) = 6


(***************************************************************************)
(* Blocked inputs and the generation context                               *)
(***************************************************************************)
\* the contents of the user records whose call was refused at the input check:
\* the assistant record of the same call holds the input refusal
BlockedInputContents(h) ==
    {h[i].content : i \in {j \in DOMAIN h :
                              /\ h[j].role = "user"
                              /\ j + 1 \in DOMAIN h
                              /\ h[j + 1].call = h[j].call
                              /\ h[j + 1].blocked
                              /\ h[j + 1].content \in {CannotProceedRefusal, FlaggedRefusal}}}

\* C31: the content of a user message whose input check blocked is in the
\* context passed to ollama_client.chat for no later message of its session.
C31_BlockedInputNotInContext ==
    \A c \in DOMAIN calls :
        ContextBuilt(calls[c]) =>
            \A i \in 1 .. Len(calls[c].context) - 1 :
                ~(/\ calls[c].context[i].role = "user"
                  /\ calls[c].context[i].content \in BlockedInputContents(chat_history[calls[c].session_id]))


(***************************************************************************)
(* The detector registry: ModelManager's loading operations and            *)
(* ConfigService, which writes the detector configurations and the active  *)
(* set of the ModelManager.  ConfigService.system_config is written by     *)
(* these operations and read by none of them, so it is not followed.       *)
(***************************************************************************)
\* ModelManager.set_active_detectors with the names stored as given
set_active_detectors_unchecked(loaded, names) == names

\* ModelManager.set_active_detectors: set(detector_names) & set(self.detectors.keys())
set_active_detectors(loaded, names) == names \cap loaded

\* ModelManager.load_detector: a name that is not available raises before
\* anything is stored; a model that fails to load raises and stores nothing
load_detector(loaded, active, name, ok) ==
    IF name \notin Detectors
        THEN [raised |-> "Failed to load detector: Unknown detector", detectors |-> loaded, active |-> active]
    ELSE IF ~ok
        THEN [raised |-> "Failed to load detector", detectors |-> loaded, active |-> active]
    ELSE [raised |-> "", detectors |-> loaded \cup {name}, active |-> active \cup {name}]

\* ModelManager.unload_detector
unload_detector(loaded, active, name) ==
    IF name \in loaded
    THEN [raised |-> "", detectors |-> loaded \ {name}, active |-> active \ {name}]
    ELSE [raised |-> "", detectors |-> loaded, active |-> active]

\* ModelManager.reload_detector: unload when loaded, then load
reload_detector(loaded, active, name, ok) ==
    LET u == unload_detector(loaded, active, name)
    IN  load_detector(u.detectors, u.active, name, ok)

\* ModelManager.initialize: the available names of the list are loaded in
\* order; the first load that fails ends the call
RECURSIVE LoadAll(_, _, _, _)
LoadAll(loaded, active, names, failing) ==
    IF names = <<>> THEN [raised |-> "", detectors |-> loaded, active |-> active]
    ELSE IF Head(names) \notin Detectors THEN LoadAll(loaded, active, Tail(names), failing)
    ELSE LET l == load_detector(loaded, active, Head(names), Head(names) \notin failing)
         IN  IF l.raised # ""
             THEN [raised |-> "Model Manager initialization failed", detectors |-> l.detectors, active |-> l.active]
             ELSE LoadAll(l.detectors, l.active, Tail(names), failing)

\* ConfigService.get_default_system_config: the "detectors" section
DefaultSystemDetectors ==
    [n \in Detectors |->
        CASE n = "toxicity" -> [enabled |-> TRUE, threshold |-> ToxicityDefaultThreshold, model |-> "martin-ha/toxic-comment-model"]
          [] n = "pii" -> [enabled |-> TRUE, sensitivity |-> PiiDefaultSensitivity, model |-> "en_core_web_sm"]
          [] n = "prompt_injection" -> [enabled |-> TRUE, threshold |-> InjectionDefaultThreshold]
          [] n = "topic" -> [enabled |-> TRUE, threshold |-> TopicDefaultThreshold, model |-> "all-MiniLM-L6-v2"]
          [] n = "fact_check" -> [enabled |-> TRUE, threshold |-> FactCheckDefaultThreshold]
          [] n = "spam" -> [enabled |-> TRUE, threshold |-> SpamDefaultThreshold]]

\* apply_config_changes lines 161-172 for one entry of updates["detectors"]
ApplyDetectorUpdate(mm, name, config) ==
    IF name \notin Detectors THEN mm
    ELSE [configs |-> update_detector_config(mm.configs, name, config),
          loaded |-> mm.loaded,
          active |-> IF "enabled" \notin DOMAIN config THEN mm.active
                     ELSE set_active_detectors(mm.loaded,
                              IF config.enabled THEN mm.active \cup {name} ELSE mm.active \ {name})]

\* ConfigService.apply_config_changes: the loop over updates["detectors"]
RECURSIVE apply_config_changes(_, _, _)
apply_config_changes(mm, order, detector_updates) ==
    IF order = <<>> THEN mm
    ELSE apply_config_changes(ApplyDetectorUpdate(mm, Head(order), detector_updates[Head(order)]),
                              Tail(order), detector_updates)

ManagerState == [configs |-> detector_configs, loaded |-> detectors, active |-> active_detectors]

InitManager ==
    /\ detectors = {}
    /\ active_detectors = {}
    /\ detector_configs = DefaultConfigs
    /\ ChatInit
    /\ arg = Idle
    /\ ret = <<>>

\* the registry after an operation that gave r
Registry(op, name, r) ==
    /\ detectors' = r.detectors
    /\ active_detectors' = r.active
    /\ arg' = [op |-> op, name |-> name, was_active |-> name \in active_detectors]
    /\ ret' = <<[raised |-> r.raised, value |-> <<>>]>>
    /\ UNCHANGED <<detector_configs, chat_vars>>

\* the names the operations are applied to: three kinds and an unknown name
ManagedNames == {"toxicity", "pii", "sentiment"}

InitializeLists == {<<>>, <<"toxicity", "sentiment", "pii">>}

MM_Initialize ==
    \E load_detectors \in InitializeLists, failing \in {{}, {"pii"}} :
        /\ arg = Idle
        /\ Registry("initialize", "",
                    LoadAll(detectors, active_detectors,
                            IF load_detectors = <<>> THEN available_detectors ELSE load_detectors, failing))

MM_LoadDetector ==
    \E name \in ManagedNames, ok \in BOOLEAN :
        arg = Idle /\ Registry("load_detector", name, load_detector(detectors, active_detectors, name, ok))

MM_UnloadDetector ==
    \E name \in ManagedNames :
        arg = Idle /\ Registry("unload_detector", name, unload_detector(detectors, active_detectors, name))

MM_ReloadDetector ==
    \E name \in ManagedNames, ok \in BOOLEAN :
        arg = Idle /\ Registry("reload_detector", name, reload_detector(detectors, active_detectors, name, ok))

ActiveChoices == {{}, {"toxicity"}, {"pii", "sentiment"}}

MM_SetActiveDetectors ==
    \E names \in ActiveChoices :
        /\ arg = Idle
        /\ Registry("set_active_detectors", "",
                    [raised |-> "", detectors |-> detectors, active |-> set_active_detectors(detectors, names)])

\* ModelManager.cleanup
MM_Cleanup ==
    arg = Idle /\ Registry("cleanup", "", [raised |-> "", detectors |-> {}, active |-> {}])

\* the registry and the configurations after a ConfigService operation
Applied(op, detector_updates) ==
    \E mm \in {apply_config_changes(ManagerState, SetOrder(DOMAIN detector_updates), detector_updates)} :
        /\ detector_configs' = mm.configs
        /\ active_detectors' = mm.active
        /\ arg' = [op |-> op, updates |-> detector_updates]
        /\ ret' = <<[raised |-> "", value |-> <<TRUE>>]>>
        /\ UNCHANGED <<detectors, chat_vars>>

ConfigUpdates == {[threshold |-> 10], [enabled |-> FALSE], [enabled |-> TRUE]}

\* ConfigService.update_detector_config
CFG_UpdateDetectorConfig ==
    \E name \in {"toxicity", "pii"}, config \in ConfigUpdates :
        arg = Idle /\ Applied("update_detector_config", [n \in {name} |-> config])

\* ConfigService.update_system_config with a "detectors" section
CFG_UpdateSystemConfig ==
    \E config \in ConfigUpdates :
        arg = Idle /\ Applied("update_system_config", [n \in {"toxicity", "pii"} |-> config])

\* ConfigService.reset_to_defaults
CFG_ResetToDefaults == arg = Idle /\ Applied("reset_to_defaults", DefaultSystemDetectors)

\* ModelManager.update_detector_config, called with a threshold
MM_UpdateThreshold ==
    \E name \in {"toxicity"} :
        /\ arg = Idle
        /\ detector_configs' = update_detector_config(detector_configs, name, [threshold |-> 10])
        /\ arg' = [op |-> "mm_update_detector_config", name |-> name]
        /\ ret' = <<[raised |-> "", value |-> <<>>]>>
        /\ UNCHANGED <<detectors, active_detectors, chat_vars>>

\* DetectionService.run_detection with a detector_config
DS_RunWithConfig ==
    \E dc \in DetectorConfigChoices \ {EmptyMap} :
        /\ arg = Idle
        /\ \E r \in {run_detection(detector_configs, detectors, active_detectors, "hello", <<>>, dc, {})} :
              /\ arg' = [op |-> "run_detection", detector_config |-> dc]
              /\ ret' = <<[raised |-> r.raised, value |-> r.value]>>
              /\ detector_configs' = r.configs
              /\ UNCHANGED <<detectors, active_detectors, chat_vars>>

NextManager ==
    \/ MM_Initialize
    \/ MM_LoadDetector
    \/ MM_UnloadDetector
    \/ MM_ReloadDetector
    \/ MM_SetActiveDetectors
    \/ MM_Cleanup
    \/ CFG_UpdateDetectorConfig
    \/ CFG_UpdateSystemConfig
    \/ CFG_ResetToDefaults
    \/ MM_UpdateThreshold
    \/ DS_RunWithConfig
    \/ Forget

SpecManager == InitManager /\ [][NextManager]_vars

\* C32: after any sequence of configuration updates the stored configuration
\* of every detector holds only keys its detect operation accepts, and every
\* loaded detector gives a non-error outcome for a non-empty text.
C32_ConfigUpdatesKeepDetectorsWorking ==
    /\ \A n \in Detectors : DOMAIN detector_configs[n] \subseteq Accepts(n)
    /\ \A n \in detectors : TaskOutcome(detector_configs, detectors, "hello", n, {}).error = ""

\* C38: after any sequence of ModelManager operations the active detectors
\* are loaded detectors and the loaded detectors are available kinds.
C38_ActiveSubsetLoadedSubsetAvailable ==
    /\ active_detectors \subseteq detectors
    /\ detectors \subseteq Detectors

\* a reload whose load failed: the detector was loaded and active before and
\* is neither afterwards, while another detector stays active
C38_Witness ==
    /\ arg.op = "reload_detector"
    /\ ret[1].raised # ""
    /\ arg.was_active
    /\ arg.name \notin detectors
    /\ arg.name \notin active_detectors
    /\ active_detectors # {}


(***************************************************************************)
(* The chat orchestrator while the active set of the ModelManager is       *)
(* changed between messages.                                               *)
(***************************************************************************)
NextActive ==
    \/ Quiescent /\ MM_SetActiveDetectors
    \/ Quiescent /\ CFG_UpdateDetectorConfig
    \/ Forget
    \/ \E c \in CallIds, m \in ContextTexts :
          /\ Quiescent
          /\ arg = Idle
          /\ \A d \in 1 .. c - 1 : calls[d].pc # "new"
          /\ PM_Begin(c, m, "s1", EmptyMap)
    \/ \E c \in CallIds : PM_InputCheck(c, {})
    \/ \E c \in CallIds : PM_GenerateAsync(c, "text")
    \/ \E c \in CallIds, outcome \in ContextOutcomes : PM_Generate(c, outcome)
    \/ \E c \in CallIds : PM_OutputCheck1(c, {})
    \/ \E c \in CallIds, outcome \in ContextOutcomes : PM_Chat(c, outcome)
    \/ \E c \in CallIds : PM_OutputCheck(c, {})

SpecActive == InitHistory /\ [][NextActive]_vars

\* the detectors a detection phase of the call runs: the names the phase
\* asks for that are loaded
DetectorsUsed(call) ==
    detectors \cap
        (CASE call.pc = "input_check" ->
                  IF call.mode = "guardrails" THEN Range(gm_active_detectors) ELSE Detectors
           [] call.pc = "output_check1" -> Detectors
           [] call.pc = "output_check" -> Range(OutputNames[1])
           [] OTHER -> {})

\* C33: a detector that is not in ModelManager.active_detectors is not run by
\* the input or output check of a message and is named in no blocking reason
\* of the message: the detectors a phase runs are active detectors.
C33_InactiveDetectorNotConsulted ==
    [][\A c \in DOMAIN calls :
          /\ DetectorsUsed(calls[c]) \subseteq active_detectors
          /\ (InFlight(calls[c]) /\ calls'[c].pc = "returned") =>
                \A i \in DOMAIN calls'[c].envelope[1].blocking_reasons :
                    calls'[c].envelope[1].blocking_reasons[i].detector \in active_detectors \cup {""}]_vars


(***************************************************************************)
(* The shape of a session history under concurrent calls                   *)
(***************************************************************************)
\* C34: under every interleaving of concurrent process_message calls a
\* session history is a sequence of adjacent pairs: its length is even, the
\* first record of each pair is a user record, the second an assistant
\* record, and both records of a pair were appended by the same call.
C34_HistoryIsPairs ==
    \A s \in DOMAIN chat_history :
        LET h == chat_history[s]
        IN  /\ Len(h) % 2 = 0
            /\ \A i \in DOMAIN h :
                  i % 2 = 1 =>
                      /\ h[i].role = "user"
                      /\ i + 1 \in DOMAIN h
                      /\ h[i + 1].role = "assistant"
                      /\ h[i + 1].call = h[i].call

\* two calls on one session were suspended together and the later call
\* appended its pair first
C34_Witness ==
    \E s \in DOMAIN chat_history :
        /\ Len(chat_history[s]) = 4
        /\ chat_history[s][1].call > chat_history[s][3].call


(***************************************************************************)
(* process_message interleaved with clear_chat_history                     *)
(***************************************************************************)
HasProcessingError(env) ==
    \E i \in DOMAIN env.blocking_reasons : env.blocking_reasons[i].tag = "Processing error"

\* the last two records of the session's history are the pair of call c
PairAppended(history, s, c) ==
    /\ s \in DOMAIN history
    /\ Len(history[s]) >= 2
    /\ history[s][Len(history[s]) - 1].call = c
    /\ history[s][Len(history[s])].call = c

\* C35: a process_message call whose validation, detections and generation
\* all succeeded returns an envelope without a 'Processing error' reason and
\* has appended its pair to the session history when it returns, whatever
\* clear_chat_history calls on the session ran while it was suspended.
C35_SuccessfulCallSurvivesClear ==
    [][\A c \in DOMAIN calls :
          (/\ InFlight(calls[c])
           /\ calls'[c].pc = "returned"
           /\ calls'[c].faults \cap {"message", "detection", "generation", "rails"} = {}) =>
              /\ ~HasProcessingError(calls'[c].envelope[1])
              /\ PairAppended(chat_history', calls'[c].session_id, c)]_vars


(***************************************************************************)
(* blocked and blocking_reasons of envelopes and assistant records         *)
(***************************************************************************)
\* C36: in every envelope process_message returns and in every assistant
\* record of a history, blocked is true exactly when blocking_reasons is not
\* empty.
C36_BlockedIffReasons ==
    /\ \A c \in DOMAIN calls :
          calls[c].pc = "returned" =>
              (calls[c].envelope[1].blocked <=> calls[c].envelope[1].blocking_reasons # <<>>)
    /\ \A s \in DOMAIN chat_history :
          \A i \in DOMAIN chat_history[s] :
              chat_history[s][i].role = "assistant" =>
                  (chat_history[s][i].blocked <=> chat_history[s][i].blocking_reasons # <<>>)

\* a session holds the record of a delivered reply and the record of a
\* refusal, and the call that returned last was blocked by a detector
C36_Witness ==
    \E c \in DOMAIN calls, s \in DOMAIN chat_history :
        /\ calls[c].pc = "returned"
        /\ calls[c].envelope[1].blocked
        /\ \E i \in DOMAIN calls[c].envelope[1].blocking_reasons :
              calls[c].envelope[1].blocking_reasons[i].detector # ""
        /\ \E i, j \in DOMAIN chat_history[s] :
              /\ chat_history[s][i].role = "assistant"
              /\ chat_history[s][j].role = "assistant"
              /\ chat_history[s][i].blocked
              /\ ~chat_history[s][j].blocked


(***************************************************************************)
(* The block decision on a map and on its extensions                       *)
(***************************************************************************)
\* C37: the block decision is monotone in the outcome map: when the decision
\* for the first entries of a map is blocked, the decision for the whole map,
\* with the further detectors' outcomes (error outcomes and outcomes without
\* a result included), is blocked as well.
C37_BlockDecisionMonotone ==
    ret # <<>> =>
        \A k \in 0 .. Len(arg) :
            analyze_results(SubSeq(arg, 1, k)).blocked => ret[1].blocked


(***************************************************************************)
(* Termination.  ModelManager.detect_all is followed task by task: it      *)
(* creates one task per detector, the tasks complete in any order, and the *)
(* call collects them in the order of creation.  process_message is        *)
(* followed await by await as above, one call after the other,            *)
(* interleaved with clear_chat_history.                                    *)
(***************************************************************************)
LiveActive == {"toxicity", "pii"}

InitLive ==
    /\ detectors = Detectors
    /\ active_detectors = LiveActive
    /\ detector_configs = DefaultConfigs
    /\ chat_history = EmptyMap
    /\ session_configs = EmptyMap
    /\ is_initialized \in BOOLEAN
    /\ gm_active_detectors = IF is_initialized THEN available_detectors ELSE <<>>
    /\ policy = <<>>
    /\ calls = [c \in CallIds |-> NewCall]
    /\ processed = [s \in Sessions |-> 0]
    /\ arg = Idle
    /\ ret = <<>>

DetectAllRunning == arg # Idle /\ arg.op = "detect_all" /\ ret = <<>>

DetectAllReturned == arg # Idle /\ arg.op = "detect_all" /\ ret # <<>>

\* lines 130-140: one task per detector of the chosen set that is loaded
DA_Start ==
    \E active_only \in BOOLEAN :
        /\ arg = Idle
        /\ Quiescent
        /\ \/ \A c \in DOMAIN calls : calls[c].pc = "new"
           \/ active_only /\ \A c \in DOMAIN calls : calls[c].pc # "new"
        /\ LET order == SetOrder((IF active_only THEN active_detectors ELSE detectors) \cap detectors)
           IN  arg' = [op |-> "detect_all", order |-> order,
                       tasks |-> [n \in Range(order) |-> "pending"],
                       awaited |-> 0, results |-> <<>>]
        /\ UNCHANGED <<mm_vars, chat_vars, ret>>

\* a detector call returns or raises: its task is done
DA_TaskCompletes(name) ==
    /\ arg # Idle
    /\ arg.op = "detect_all"
    /\ name \in DOMAIN arg.tasks
    /\ arg.tasks[name] = "pending"
    /\ \E outcome \in {"returned", "raised"} : arg' = [arg EXCEPT !.tasks[name] = outcome]
    /\ UNCHANGED <<mm_vars, chat_vars, ret>>

\* lines 143-153: await task, inside try/except; the call resumes when the
\* task it waits for is done
DA_Await ==
    /\ DetectAllRunning
    /\ arg.awaited < Len(arg.order)
    /\ LET name == arg.order[arg.awaited + 1]
       IN  /\ arg.tasks[name] # "pending"
           /\ arg' = [arg EXCEPT !.awaited = @ + 1,
                                 !.results = Append(@, Entry(name,
                                     TaskOutcome(detector_configs, detectors, "hello", name,
                                                 IF arg.tasks[name] = "raised" THEN {name} ELSE {})))]
    /\ UNCHANGED <<mm_vars, chat_vars, ret>>

\* detect_all returns with the first task collected only
AwaitedFirstOnly(order) == IF order = <<>> THEN 0 ELSE 1

\* the for loop of lines 143-153 runs over every task
AwaitedBeforeReturn(order) == Len(order)

\* line 155: return results
DA_Return ==
    /\ DetectAllRunning
    /\ arg.awaited = AwaitedBeforeReturn(arg.order)
    /\ ret' = <<[raised |-> "", value |-> arg.results]>>
    /\ UNCHANGED <<mm_vars, chat_vars, arg>>

\* the caller has the results
DA_Taken == DetectAllReturned /\ Forget

LiveTexts == {"hello", "you are awful"}

LiveOutcomes == {[kind |-> "text", text |-> "gen: fine"], [kind |-> "raise", text |-> ""]}

\* the steps of call c after it was received
PM_Step(c) ==
    \/ \E fail \in ChatFailChoices : PM_InputCheck(c, fail)
    \/ \E kind \in RailsOutcomes : PM_GenerateAsync(c, kind)
    \/ \E outcome \in LiveOutcomes : PM_Generate(c, outcome)
    \/ \E fail \in ChatFailChoices : PM_OutputCheck1(c, fail)
    \/ \E outcome \in LiveOutcomes : PM_Chat(c, outcome)
    \/ \E fail \in ChatFailChoices : PM_OutputCheck(c, fail)

NextLive ==
    \/ DA_Start
    \/ \E name \in Detectors : DA_TaskCompletes(name)
    \/ DA_Await
    \/ DA_Return
    \/ DA_Taken
    \/ arg = Idle /\ CS_ClearChatHistory("s1")
    \/ \E c \in CallIds, m \in LiveTexts :
          /\ arg = Idle
          /\ Quiescent
          /\ \A d \in 1 .. c - 1 : calls[d].pc # "new"
          /\ PM_Begin(c, m, "s1", EmptyMap)
    \/ \E c \in CallIds : arg = Idle /\ PM_Step(c)

\* every detector call and every generation call eventually returns or
\* raises, and the event loop resumes a coroutine whose awaited call is done
PM_Progress == \E c \in CallIds : arg = Idle /\ PM_Step(c)

DA_Progress == (\E name \in Detectors : DA_TaskCompletes(name)) \/ DA_Await \/ DA_Return \/ DA_Taken

\* a step of PM_Progress is possible exactly when a call is suspended
PM_Enabled == arg = Idle /\ \E c \in CallIds : InFlight(calls[c])

\* weak fairness of PM_Progress, written out with PM_Enabled for
\* ENABLED <<PM_Progress>>_vars
PM_Fair == []<>(~PM_Enabled) \/ []<><<PM_Progress>>_vars

FairLive == PM_Fair /\ WF_vars(DA_Progress)

SpecLive == InitLive /\ [][NextLive]_vars /\ FairLive

\* C39: when every detector call and every generation call eventually
\* returns or raises, a process_message call that was received eventually
\* returns, with exactly one envelope and once only, and a detect_all call
\* eventually returns, and returns only when all of its detector tasks are
\* done and their outcomes collected.
C39_CallsTerminate ==
    /\ \A c \in CallIds :
          InFlight(calls[c]) ~> (calls[c].pc = "returned" /\ Len(calls[c].envelope) = 1)
    /\ [][\A c \in CallIds :
            calls[c].pc \in {"returned", "taken"} => calls'[c].pc \in {"returned", "taken"}]_vars
    /\ DetectAllRunning ~> DetectAllReturned
    /\ [](DetectAllReturned =>
            /\ \A n \in DOMAIN arg.tasks : arg.tasks[n] # "pending"
            /\ Names(ret[1].value) = Range(arg.order))

\* detect_all has returned with the outcomes of two tasks, one of which
\* raised, after process_message calls that were suspended have returned
C39_Witness ==
    /\ DetectAllReturned
    /\ Len(arg.order) = 2
    /\ \E n \in DOMAIN arg.tasks : arg.tasks[n] = "raised"
    /\ \E n \in DOMAIN arg.tasks : arg.tasks[n] = "returned"
    /\ \E c \in CallIds : calls[c].pc = "returned" /\ calls[c].trace # <<>> /\ Len(calls[c].envelope) = 1


(***************************************************************************)
(* The three implementations of the block rule: analyze_results, the       *)
(* check_all_detectors action and SimpleGuardrails.process_message         *)
(***************************************************************************)
\* the kinds the if / elif chains of the two guardrails rules test
RuleKinds == {"toxicity", "pii", "prompt_injection", "topic", "spam"}

\* a chain without the branch of the topic kind
RuleBlocksWithoutTopic(name, r) == name \in RuleKinds \ {"topic"} /\ r.flag

\* detector_name == <kind> and result.get(<the kind's flag>, False)
RuleBlocks(name, r) == name \in RuleKinds /\ r.flag

\* custom_actions.check_all_detectors: the reason of a kind
ActionReason(name) ==
    CASE name = "toxicity" -> "toxic content detected"
      [] name = "pii" -> "PII detected"
      [] name = "prompt_injection" -> "prompt injection detected"
      [] name = "topic" -> "restricted topic detected"
      [] OTHER -> "spam detected"

\* SimpleGuardrails.process_message: the reason of a kind
SimpleReason(name) ==
    CASE name = "toxicity" -> "Toxic content detected"
      [] name = "pii" -> "Personal information detected"
      [] name = "prompt_injection" -> "Prompt injection detected"
      [] name = "topic" -> "Restricted topic detected"
      [] OTHER -> "Spam detected"

\* the loop of check_all_detectors over results.items()
RECURSIVE ActionLoop(_, _)
ActionLoop(acc, results) ==
    IF results = <<>> THEN acc
    ELSE LET name == Head(results).name
             outcome == Head(results).outcome
         IN  IF outcome.error # "" THEN ActionLoop(acc, Tail(results))
             ELSE IF RuleBlocks(name, outcome.result[1])
                  THEN ActionLoop([blocked |-> TRUE, blocking_reasons |-> Append(acc.blocking_reasons, ActionReason(name))],
                                  Tail(results))
                  ELSE ActionLoop(acc, Tail(results))

\* the loop of SimpleGuardrails.process_message over results.items()
RECURSIVE SimpleLoop(_, _)
SimpleLoop(acc, results) ==
    IF results = <<>> THEN acc
    ELSE LET name == Head(results).name
             outcome == Head(results).outcome
         IN  IF outcome.error # "" THEN SimpleLoop(acc, Tail(results))
             ELSE IF name \in RuleKinds /\ outcome.result[1].flag
                  THEN SimpleLoop([blocked |-> TRUE, blocking_reasons |-> Append(acc.blocking_reasons, SimpleReason(name))],
                                  Tail(results))
                  ELSE SimpleLoop(acc, Tail(results))

\* result.get(...) is reached for an outcome of a tested kind whose result is None
RuleRaises(results) ==
    \E i \in DOMAIN results : results[i].name \in RuleKinds /\ Malformed(results[i].outcome)

\* check_all_detectors from the results of detect_all on; its except
\* branch returns {"error": ..., "blocked": False}
check_all_detectors(results) ==
    IF RuleRaises(results) THEN [error |-> "'NoneType' object has no attribute 'get'", blocked |-> FALSE]
    ELSE ActionLoop([blocked |-> FALSE, blocking_reasons |-> <<>>], results)

\* SimpleGuardrails.process_message from the results of detect_all to the
\* block decision; it has no try around the loop
simple_process_message(results) ==
    IF RuleRaises(results) THEN Raised("'NoneType' object has no attribute 'get'")
    ELSE Returned(SimpleLoop([blocked |-> FALSE, blocking_reasons |-> <<>>], results))

\* the three rules applied to the same map
AnalyzeThree ==
    /\ ret = <<>>
    /\ ret' = <<analyze_results(arg), check_all_detectors(arg), simple_process_message(arg)>>
    /\ UNCHANGED <<mm_vars, chat_vars, arg>>

NextRules == AddOutcome \/ AnalyzeThree

SpecRules == InitAnalyze /\ [][NextRules]_vars

\* C40: for every map of well-formed outcomes, analyze_results, the
\* check_all_detectors action and SimpleGuardrails.process_message give the
\* same blocked value and the same number of blocking reasons.
C40_ThreeBlockRulesAgree ==
    ret # <<>> =>
        /\ ret[3].raised = ""
        /\ "error" \notin DOMAIN ret[2]
        /\ ret[2].blocked = ret[1].blocked
        /\ ret[3].value[1].blocked = ret[1].blocked
        /\ Len(ret[2].blocking_reasons) = Len(ret[1].blocking_reasons)
        /\ Len(ret[3].value[1].blocking_reasons) = Len(ret[1].blocking_reasons)

\* a map in which two kinds block, among them the topic kind, and a third
\* outcome is an error outcome or a flagged fact_check outcome
C40_Witness ==
    /\ ret # <<>>
    /\ Len(arg) = 3
    /\ \E i \in DOMAIN arg : arg[i].name = "topic" /\ arg[i].outcome.error = "" /\ arg[i].outcome.result[1].flag
    /\ \E i \in DOMAIN arg :
          \/ arg[i].outcome.error # ""
          \/ arg[i].name = "fact_check" /\ arg[i].outcome.result[1].flag
    /\ ret[1].blocked
    /\ Len(ret[1].blocking_reasons) = 2
    /\ Len(ret[2].blocking_reasons) = 2

====
